---------------------------- MODULE Spec2Model ----------------------------
(***************************************************************************)
(* State-machine models of the cactus binding layers and of the native     *)
(* core they wrap.  Each component has its own specification:              *)
(*                                                                         *)
(*   SpecVTT      cactus-react  VoiceToText (TypeScript) + AudioInputModule *)
(*   SpecIOS      cactus-ios    CactusSTTService + iOSAudioInputManager     *)
(*   SpecIOSFair  the same, with the callbacks' delivery made fair          *)
(*   SpecFlutter  cactus-flutter VoiceProcessorService, AudioInputService,  *)
(*                CactusSTTService (Dart)                                   *)
(*   SpecCtx      cactus::cactus_context completion loop                    *)
(*   SpecSTT      cactus::STT                                               *)
(*                                                                         *)
(* A component's variables keep their initial value under the other         *)
(* components' specifications.                                              *)
(***************************************************************************)
EXTENDS Integers, Sequences, FiniteSets, TLC

\* ---- cactus-react: VoiceToText ----------------------------------------
VARIABLES
  vtt_platform,             \* Platform.OS
  vtt_hasAudioMethods,      \* the native module has requestPermissions/startRecording/stopRecording
  vtt_modelPath,            \* VoiceToText.modelPath
  vtt_isRecording,          \* VoiceToText.isRecording
  vtt_currentTranscription, \* VoiceToText.currentTranscription
  vtt_subscribed,           \* onAudioData / onError subscriptions not yet removed
  vtt_pending,              \* native promises in flight, in call order
  vtt_events,               \* onAudioData events sent by native, not yet delivered
  vtt_nativeCalls,          \* number of native module methods invoked so far
  vtt_calls,                \* number of VoiceToText methods called so far
  vtt_last,                 \* the step just taken: method, outcome, value
  vtt_initCalled,           \* history: initSTT called, no releaseSTT completed since
  vtt_initOK,               \* history: the paths whose initSTT resolved, no releaseSTT completed since
  nat_sttContext,           \* AudioInputModule.sttContext # nil
  nat_audioRecorder,        \* AudioInputModule.audioRecorder # nil
  vtt_lastResolved          \* history: what the last processAudio resolved with, NULL once a releaseSTT completed

vttVars == <<vtt_platform, vtt_hasAudioMethods, vtt_modelPath, vtt_isRecording,
             vtt_currentTranscription, vtt_subscribed, vtt_pending, vtt_events,
             vtt_nativeCalls, vtt_calls, vtt_last, vtt_initCalled, vtt_initOK,
             nat_sttContext, nat_audioRecorder, vtt_lastResolved>>

\* ---- cactus-ios: CactusSTTService + iOSAudioInputManager ---------------
VARIABLES
  ios_sttContext,           \* CactusSTTService.sttContext: 0 is nil, k the k-th context created
  ios_modelPath,            \* CactusSTTService.modelPath
  ios_isCapturingVoice,     \* CactusSTTService.isCapturingVoice
  ios_transcriptionHandler, \* CactusSTTService.transcriptionHandler: 0 is nil, h the handler of the h-th startVoiceCapture
  ios_audioRecorder,        \* iOSAudioInputManager.audioRecorder: "nil", "recording", or "stopped" (stop() called, delegate callback due)
  ios_currentRecordingURL,  \* iOSAudioInputManager.currentRecordingURL # nil
  ios_permPending,          \* requestPermissions completions not yet delivered
  ios_contexts,             \* number of contexts cactus_stt_init has returned
  ios_freeCount,            \* per context, the number of cactus_stt_free calls on it
  ios_handlerCalls,         \* per handler, the number of times it was invoked
  ios_captures,             \* number of startVoiceCapture calls so far
  ios_calls,                \* number of CactusSTTService methods called so far
  ios_permRequests,         \* number of requestPermissions calls
  ios_recordings,           \* number of recordings started
  ios_nativeCalls,          \* number of cactus_stt_* calls
  ios_last,                 \* the step just taken and what it passed to its callback
  ios_stopRequested,        \* history: the capture (handler) a stopVoiceCapture was called for
  ios_prevOp                \* history: the step before the one ios_last tells

iosVars == <<ios_sttContext, ios_modelPath, ios_isCapturingVoice, ios_transcriptionHandler,
             ios_audioRecorder, ios_currentRecordingURL, ios_permPending, ios_contexts,
             ios_freeCount, ios_handlerCalls, ios_captures, ios_calls, ios_permRequests,
             ios_recordings, ios_nativeCalls, ios_last, ios_stopRequested, ios_prevOp>>

\* ---- cactus-flutter: VoiceProcessorService, AudioInputService and
\* CactusSTTService (Dart), as one record
VARIABLE fl

\* ---- cactus core: cactus::cactus_context, as one record
VARIABLE ctx

\* ---- cactus core: cactus::STT, as one record
VARIABLE stt

\* ---- cactus-flutter: CactusSTTService (Dart) called directly, as one record
VARIABLE ds

\* ---- cactus core: calls of cactus::kv_cache_type_from_str, as one record
VARIABLE kv

\* ---- cactus-react ios: the Cactus native module and its serial queue, as one record
VARIABLE rn

vars == <<vttVars, iosVars, fl, ctx, stt, ds, kv, rn>>

\* What each component's specification leaves as constructed.
vttRest == <<iosVars, fl, ctx, stt, ds, kv, rn>>
iosRest == <<vttVars, fl, ctx, stt, ds, kv, rn>>
flRest == <<vttVars, iosVars, ctx, stt, ds, kv, rn>>
ctxRest == <<vttVars, iosVars, fl, stt, ds, kv, rn>>
sttRest == <<vttVars, iosVars, fl, ctx, ds, kv, rn>>
dsRest == <<vttVars, iosVars, fl, ctx, stt, kv, rn>>
kvRest == <<vttVars, iosVars, fl, ctx, stt, ds, rn>>
rnRest == <<vttVars, iosVars, fl, ctx, stt, ds, kv>>

NULL == "null"

\* ---- bounds ------------------------------------------------------------
MaxVttCalls == 5      \* VoiceToText methods called in one behaviour
MaxVttPending == 3    \* native promises in flight at once
MaxIosCalls == 5      \* CactusSTTService methods called in one behaviour
MaxIosCaptures == 2   \* startVoiceCapture calls in one behaviour
MaxFlCalls == 4       \* VoiceProcessorService methods called in one behaviour
MaxFlEvents == 3      \* events the native audio stream sends in one behaviour
MaxPromptTokens == 9  \* tokens in a tokenized prompt
MaxCtxTokens == 4     \* nextToken calls in one completion
MaxSttCalls == 4      \* cactus::STT methods called in one behaviour
MaxDsCalls == 5       \* CactusSTTService (Dart) methods called in one behaviour
MaxKvCalls == 8       \* kv_cache_type_from_str calls in one behaviour
MaxRnCalls == 5       \* Cactus module methods called in one behaviour

Paths == {"m1", "m2"}
AudioFiles == {"a1"}
Texts == {"t1", "t2"}

NotInitializedMsg == "STT model not initialized. Call initSTT(modelPath) first."
AlreadyRecordingMsg == "Already recording"

\* =======================================================================
\* cactus-ios/Cactus/CactusSTTService.swift, iOSAudioInputManager.swift
\* =======================================================================

IosEvent(op, handler, cb, text, err) ==
  [op |-> op, handler |-> handler, cb |-> cb, text |-> text, err |-> err]

\* CactusSTTService.init(): no context, no capture, a manager with no recorder.
IOS_Init ==
  /\ ios_sttContext = 0
  /\ ios_modelPath = NULL
  /\ ios_isCapturingVoice = FALSE
  /\ ios_transcriptionHandler = 0
  /\ ios_audioRecorder = "nil"
  /\ ios_currentRecordingURL = FALSE
  /\ ios_permPending = 0
  /\ ios_contexts = 0
  /\ ios_freeCount = [c \in 1..MaxIosCalls |-> 0]
  /\ ios_handlerCalls = [h \in 1..MaxIosCaptures |-> 0]
  /\ ios_captures = 0
  /\ ios_calls = 0
  /\ ios_permRequests = 0
  /\ ios_recordings = 0
  /\ ios_nativeCalls = 0
  /\ ios_last = IosEvent("init", 0, 0, NULL, NULL)
  /\ ios_stopRequested = 0
  /\ ios_prevOp = "init"

IOS_Idle == IOS_Init

\* isInitialized: sttContext != nil
IosIsInitialized(sttContext) == sttContext # 0

\* A handler invoked once more; handler 0 is nil (an optional call that does nothing).
IosInvoked(counts, h) ==
  IF h = 0 THEN counts ELSE [counts EXCEPT ![h] = @ + 1]

\* The capture a stop was requested for ends when its handler is invoked.
IosStopAfter(h) == IF h # 0 /\ ios_stopRequested = h THEN 0 ELSE ios_stopRequested

\* The free counts if a held context were dropped without cactus_stt_free.
IosNotFreed(counts, context) == counts

\* cactus_stt_free(ctx)
IosFreed(counts, context) ==
  IF context = 0 THEN counts ELSE [counts EXCEPT ![context] = @ + 1]

\* initSTT(modelPath:completion:): a held context is freed, a new one is
\* created, completion gets nil exactly when cactus_stt_init returned one.
IOS_initSTT ==
  /\ ios_calls < MaxIosCalls
  /\ ios_calls' = ios_calls + 1
  /\ \E path \in Paths, ok \in BOOLEAN :
       /\ ios_modelPath' = path
       /\ ios_freeCount' = IosFreed(ios_freeCount, ios_sttContext)
       /\ ios_contexts' = IF ok THEN ios_contexts + 1 ELSE ios_contexts
       /\ ios_sttContext' = IF ok THEN ios_contexts + 1 ELSE 0
       /\ ios_nativeCalls' = ios_nativeCalls + (IF ios_sttContext # 0 THEN 2 ELSE 1)
       /\ ios_last' = IosEvent("initSTT", 0, 1, NULL,
                               IF ok THEN NULL ELSE "initializationFailed")
  /\ UNCHANGED <<ios_isCapturingVoice, ios_transcriptionHandler, ios_audioRecorder,
                 ios_currentRecordingURL, ios_permPending, ios_handlerCalls, ios_captures,
                 ios_permRequests, ios_recordings, ios_stopRequested>>

\* sttContext if releaseSTT freed the context but kept the pointer.
IosContextKeptAfterRelease(sttContext) == sttContext

\* sttContext after releaseSTT: nil, whether or not a context was held.
IosContextAfterRelease(sttContext) == 0

\* releaseSTT(completion:)
IOS_releaseSTT ==
  /\ ios_calls < MaxIosCalls
  /\ ios_calls' = ios_calls + 1
  /\ ios_freeCount' = IosFreed(ios_freeCount, ios_sttContext)
  /\ ios_nativeCalls' = ios_nativeCalls + (IF ios_sttContext # 0 THEN 1 ELSE 0)
  /\ ios_sttContext' = IosContextAfterRelease(ios_sttContext)
  /\ ios_modelPath' = NULL
  /\ ios_last' = IosEvent("releaseSTT", 0, 1, NULL, NULL)
  /\ UNCHANGED <<ios_isCapturingVoice, ios_transcriptionHandler, ios_audioRecorder,
                 ios_currentRecordingURL, ios_permPending, ios_contexts, ios_handlerCalls,
                 ios_captures, ios_permRequests, ios_recordings, ios_stopRequested>>

\* isCapturingVoice if the not-initialized guard also ended the capture.
IosCapturingCleared(old) == FALSE

\* isCapturingVoice after a startVoiceCapture that found the service not initialized.
IosCapturingAfterNotInitialized(old) == old

\* The path of a startVoiceCapture without the guard on isCapturingVoice.
StartVoiceCapturePathUnguarded(sttContext, isCapturingVoice) ==
  IF ~IosIsInitialized(sttContext) THEN "notInitialized" ELSE "accepted"

\* The path startVoiceCapture takes: the two guards, in order.
StartVoiceCapturePath(sttContext, isCapturingVoice) ==
  IF ~IosIsInitialized(sttContext) THEN "notInitialized"
  ELSE IF isCapturingVoice THEN "alreadyCapturing"
  ELSE "accepted"

\* startVoiceCapture(transcriptionHandler:), up to the permission request.
IOS_startVoiceCapture ==
  /\ ios_calls < MaxIosCalls
  /\ ios_captures < MaxIosCaptures
  /\ ios_calls' = ios_calls + 1
  /\ ios_captures' = ios_captures + 1
  /\ LET h == ios_captures + 1
         path == StartVoiceCapturePath(ios_sttContext, ios_isCapturingVoice) IN
     CASE path = "notInitialized" ->
            /\ ios_handlerCalls' = IosInvoked(ios_handlerCalls, h)
            /\ ios_last' = IosEvent("startVoiceCapture", h, 1, NULL, "notInitialized")
            /\ ios_isCapturingVoice' = IosCapturingAfterNotInitialized(ios_isCapturingVoice)
            /\ UNCHANGED <<ios_transcriptionHandler, ios_permPending, ios_permRequests>>
       [] path = "alreadyCapturing" ->
            /\ ios_handlerCalls' = IosInvoked(ios_handlerCalls, h)
            /\ ios_last' = IosEvent("startVoiceCapture", h, 1, NULL, "alreadyCapturing")
            /\ UNCHANGED <<ios_isCapturingVoice, ios_transcriptionHandler, ios_permPending,
                           ios_permRequests>>
       [] OTHER ->
            /\ ios_transcriptionHandler' = h
            /\ ios_isCapturingVoice' = TRUE
            /\ ios_permPending' = ios_permPending + 1
            /\ ios_permRequests' = ios_permRequests + 1
            /\ ios_last' = IosEvent("startVoiceCapture", h, 0, NULL, NULL)
            /\ UNCHANGED ios_handlerCalls
  /\ UNCHANGED <<ios_sttContext, ios_modelPath, ios_audioRecorder, ios_currentRecordingURL,
                 ios_contexts, ios_freeCount, ios_recordings, ios_nativeCalls,
                 ios_stopRequested>>

\* The completion of requestPermissions, delivered on the main queue: when
\* granted startRecording() is tried; when it throws, or when not granted, the
\* capture is ended and the stored handler gets the error.
\* startRecording() throws before it touches the manager's fields (the session
\* could not be set up), after it set currentRecordingURL (the directory could
\* not be created), or from the recorder's setup, which clears
\* currentRecordingURL: either no recorder was created, or the new recorder
\* did not start recording (it never calls back; it counts as no recorder).
IOS_permissionCallback ==
  /\ ios_permPending > 0
  /\ ios_permPending' = ios_permPending - 1
  /\ \E outcome \in {"started", "sessionFailed", "directoryFailed", "recorderInitFailed",
                     "recordFailed", "denied"} :
       IF outcome = "started"
         THEN /\ ios_audioRecorder' = "recording"
              /\ ios_currentRecordingURL' = TRUE
              /\ ios_recordings' = ios_recordings + 1
              /\ ios_last' = IosEvent("permissionCallback", 0, 0, NULL, NULL)
              /\ UNCHANGED <<ios_isCapturingVoice, ios_handlerCalls, ios_stopRequested>>
         ELSE /\ ios_audioRecorder' = IF outcome = "recordFailed" THEN "nil" ELSE ios_audioRecorder
              /\ ios_currentRecordingURL' =
                   IF outcome \in {"recorderInitFailed", "recordFailed"} THEN FALSE
                   ELSE IF outcome = "directoryFailed" THEN TRUE
                   ELSE ios_currentRecordingURL
              /\ ios_recordings' = ios_recordings
              /\ ios_isCapturingVoice' = FALSE
              /\ ios_handlerCalls' = IosInvoked(ios_handlerCalls, ios_transcriptionHandler)
              /\ ios_stopRequested' = IosStopAfter(ios_transcriptionHandler)
              /\ ios_last' = IosEvent("permissionCallback", ios_transcriptionHandler,
                                      IF ios_transcriptionHandler = 0 THEN 0 ELSE 1, NULL,
                                      IF outcome = "denied" THEN "permissionDenied"
                                                            ELSE "audioRecordingFailed")
  /\ UNCHANGED <<ios_sttContext, ios_modelPath, ios_transcriptionHandler, ios_contexts,
                 ios_freeCount, ios_captures, ios_calls, ios_permRequests, ios_nativeCalls>>

\* iOSAudioInputManager.stopRecording(): nothing without a recorder that is
\* recording; otherwise recorder.stop(), and the delegate callback is due.
AudioRecorderAfterStop(recorder) ==
  IF recorder = "recording" THEN "stopped" ELSE recorder

\* stopVoiceCapture()
IOS_stopVoiceCapture ==
  /\ ios_calls < MaxIosCalls
  /\ ios_calls' = ios_calls + 1
  /\ IF ios_isCapturingVoice
       THEN /\ ios_audioRecorder' = AudioRecorderAfterStop(ios_audioRecorder)
            /\ ios_stopRequested' = ios_transcriptionHandler
       ELSE UNCHANGED <<ios_audioRecorder, ios_stopRequested>>
  /\ ios_last' = IosEvent("stopVoiceCapture", 0, 0, NULL, NULL)
  /\ UNCHANGED <<ios_sttContext, ios_modelPath, ios_isCapturingVoice,
                 ios_transcriptionHandler, ios_currentRecordingURL, ios_permPending,
                 ios_contexts, ios_freeCount, ios_handlerCalls, ios_captures,
                 ios_permRequests, ios_recordings, ios_nativeCalls>>

\* What processAudioFile passes to its completion: notInitialized without a
\* context; otherwise the transcription cactus_stt_get_transcription returned,
\* or processingFailed when it returned null.
ProcessAudioFileResult(sttContext, transcription) ==
  IF sttContext = 0 THEN [text |-> NULL, err |-> "notInitialized", native |-> 0]
  ELSE IF transcription = NULL
    THEN [text |-> NULL, err |-> "processingFailed", native |-> 1]
    ELSE [text |-> transcription, err |-> NULL, native |-> 2]

\* processAudioFile(filePath:completion:), called by the application.
IOS_processAudioFile ==
  /\ ios_calls < MaxIosCalls
  /\ ios_calls' = ios_calls + 1
  /\ \E t \in Texts \cup {NULL} :
       LET r == ProcessAudioFileResult(ios_sttContext, t) IN
       /\ (ios_sttContext = 0 => t = NULL)
       /\ ios_nativeCalls' = ios_nativeCalls + r.native
       /\ ios_last' = IosEvent("processAudioFile", 0, 1, r.text, r.err)
  /\ UNCHANGED <<ios_sttContext, ios_modelPath, ios_isCapturingVoice,
                 ios_transcriptionHandler, ios_audioRecorder, ios_currentRecordingURL,
                 ios_permPending, ios_contexts, ios_freeCount, ios_handlerCalls,
                 ios_captures, ios_permRequests, ios_recordings, ios_stopRequested>>

\* audioInputManager(_:didCaptureAudioFile:withData:) and
\* audioInputManager(_:didFailWithError:), as one delegate call: `captured`
\* tells which; both do nothing unless a capture is in progress, and otherwise
\* pass one result to the stored handler and end the capture.
IosDelegate(op, captured) ==
  IF ~ios_isCapturingVoice
    THEN /\ ios_last' = IosEvent(op, 0, 0, NULL, NULL)
         /\ UNCHANGED <<ios_isCapturingVoice, ios_handlerCalls, ios_nativeCalls,
                        ios_stopRequested>>
    ELSE /\ ios_isCapturingVoice' = FALSE
         /\ ios_handlerCalls' = IosInvoked(ios_handlerCalls, ios_transcriptionHandler)
         /\ ios_stopRequested' = IosStopAfter(ios_transcriptionHandler)
         /\ IF captured
              THEN \E t \in Texts \cup {NULL} :
                     LET r == ProcessAudioFileResult(ios_sttContext, t) IN
                     /\ (ios_sttContext = 0 => t = NULL)
                     /\ ios_nativeCalls' = ios_nativeCalls + r.native
                     /\ ios_last' = IosEvent(op, ios_transcriptionHandler, 1, r.text, r.err)
              ELSE /\ ios_nativeCalls' = ios_nativeCalls
                   /\ ios_last' = IosEvent(op, ios_transcriptionHandler, 1, NULL,
                                           "audioRecordingFailed")

\* audioRecorderDidFinishRecording(_:successfully:): without a URL, with an
\* unsuccessful flag or an unreadable or empty file the delegate gets
\* didFailWithError, otherwise didCaptureAudioFile; then cleanup().
IOS_recorderDidFinish ==
  /\ ios_audioRecorder = "stopped"
  /\ \E flag \in BOOLEAN, fileOK \in BOOLEAN :
       IosDelegate("recorderDidFinish", ios_currentRecordingURL /\ flag /\ fileOK)
  /\ ios_audioRecorder' = "nil"
  /\ ios_currentRecordingURL' = FALSE
  /\ UNCHANGED <<ios_sttContext, ios_modelPath, ios_transcriptionHandler, ios_permPending,
                 ios_contexts, ios_freeCount, ios_captures, ios_calls, ios_permRequests,
                 ios_recordings>>

\* audioRecorderEncodeErrorDidOccur(_:error:), while recording: the delegate
\* gets didFailWithError; cleanup() drops the recorder.
IOS_encodeError ==
  /\ ios_audioRecorder = "recording"
  /\ IosDelegate("encodeError", FALSE)
  /\ ios_audioRecorder' = "nil"
  /\ ios_currentRecordingURL' = FALSE
  /\ UNCHANGED <<ios_sttContext, ios_modelPath, ios_transcriptionHandler, ios_permPending,
                 ios_contexts, ios_freeCount, ios_captures, ios_calls, ios_permRequests,
                 ios_recordings>>

\* =======================================================================
\* cactus-flutter/lib/src: voice_processor_service.dart,
\* audio_input_service.dart, stt_service.dart
\*
\* The application awaits each VoiceProcessorService method before it calls
\* the next; fl.pc tells which platform call a pending method waits for.
\* Awaits that complete without a platform round trip (closing a controller,
\* cancelling a subscription, the FFI calls) run to the next platform call in
\* the same step: no platform message is handled in between.
\* =======================================================================

FlEvent(op, res) == [op |-> op, res |-> res]

\* The three services as constructed.
FL_Init ==
  fl = [ isSTTInitialized |-> FALSE,        \* VoiceProcessorService._isSTTInitialized
         isListening |-> FALSE,             \* VoiceProcessorService._isListening
         transcriptionTimer |-> "null",     \* _transcriptionTimer: "null", "active", "cancelled"
         audioDataSubscription |-> 0,       \* _audioDataSubscription: 0 is null, c a subscription to controller c
         subscriptionLive |-> FALSE,        \* that subscription is neither cancelled nor done
         state |-> "idle",                  \* the last state added to _stateController
         errors |-> 0,                      \* VoiceProcessorErrors the last step added to _errorController
         sttContext |-> FALSE,              \* CactusSTTService._sttContext != nullptr
         audioDataController |-> 0,         \* AudioInputService._audioDataController: 0 is null
         controllers |-> 0,                 \* stream controllers created so far
         eventChannelSubscription |-> FALSE,\* AudioInputService._eventChannelSubscription != null
         eventLive |-> FALSE,               \* the event channel has a listener
         isRecordingDart |-> FALSE,         \* AudioInputService._isRecordingDart
         nativeRecording |-> FALSE,         \* the native recorder runs
         pc |-> "idle",                     \* the platform call a pending method awaits
         calls |-> 0,                       \* VoiceProcessorService methods called so far
         startRecordingCalls |-> 0,         \* AudioInputService.startRecording() calls so far
         stopRecordingCalls |-> 0,          \* AudioInputService.stopRecording() calls so far
         aisResult |-> "none",              \* what the last startRecording()/stopRecording() of AudioInputService returned
         threw |-> FALSE,                   \* the native call this step answers threw a PlatformException
         finalTranscriptions |-> 0,         \* getTranscription() calls made by stopProcessing so far
         events |-> 0,                      \* native audio stream events so far
         obliged |-> FALSE,                 \* history: startProcessing completed on its success path, stopProcessing not called since
         missed |-> FALSE,                  \* history: a chunk emitted while obliged did not reach processAudioChunk
         last |-> FlEvent("constructor", "done") ]

FL_Idle == FL_Init

\* Timer.cancel()
FlCancelTimer(t) == IF t = "active" THEN "cancelled" ELSE t

\* The onDone callback startProcessing gives its subscription.
VpsOnDone(s) ==
  IF s.isListening
    THEN [s EXCEPT !.isListening = FALSE,
                   !.transcriptionTimer = FlCancelTimer(@),
                   !.state = "idle"]
    ELSE s

\* The onError callback startProcessing gives its subscription.
VpsOnError(s) ==
  [s EXCEPT !.errors = @ + 1,
            !.state = "error",
            !.isListening = FALSE,
            !.transcriptionTimer = FlCancelTimer(@)]

\* The subscription of the VoiceProcessorService listens to the controller
\* the AudioInputService holds.
FlHeard(s) ==
  /\ s.audioDataController # 0
  /\ s.subscriptionLive
  /\ s.audioDataSubscription = s.audioDataController

\* _audioDataController?.close(): a broadcast controller sends done to its
\* listeners, whose subscriptions end.
FlCloseController(s) ==
  IF FlHeard(s) THEN [VpsOnDone(s) EXCEPT !.subscriptionLive = FALSE] ELSE s

\* _audioDataController?.sink.addError(...)
FlAddError(s) == IF FlHeard(s) THEN VpsOnError(s) ELSE s

\* The data callback of startProcessing: the chunk goes to processAudioChunk
\* unless the service is not listening or the STT is not initialized.
VpsChunkProcessed(s) == s.isListening /\ s.sttContext

\* _audioDataController?.sink.add(audioChunk)
FlAddChunk(s) ==
  IF s.audioDataController = 0 THEN [s EXCEPT !.last = FlEvent("chunk", "noController")]
  ELSE IF FlHeard(s) /\ VpsChunkProcessed(s)
    THEN [s EXCEPT !.last = FlEvent("chunk", "processed")]
    ELSE [s EXCEPT !.last = FlEvent("chunk", IF FlHeard(s) THEN "dropped" ELSE "unheard"),
                   !.missed = @ \/ s.obliged]

\* AudioInputService.startRecording() when not yet recording, up to the
\* native call: the held controller is closed and replaced, the event channel
\* is listened to.
AisStartRecordingBegin(s) ==
  LET closed == FlCloseController(s) IN
  [closed EXCEPT !.controllers = @ + 1,
                 !.audioDataController = closed.controllers + 1,
                 !.eventChannelSubscription = TRUE,
                 !.eventLive = TRUE,
                 !.pc = "startRecording"]

\* The cleanup startRecording (on PlatformException) and stopRecording share:
\* the event subscription is cancelled and forgotten, the controller closed
\* and forgotten.
AisDropStreamsKeepsController(s) ==
  [s EXCEPT !.eventLive = IF s.eventChannelSubscription THEN FALSE ELSE @,
            !.eventChannelSubscription = FALSE]

AisDropStreams(s) ==
  LET cancelled == [s EXCEPT !.eventLive = IF s.eventChannelSubscription THEN FALSE ELSE @,
                             !.eventChannelSubscription = FALSE] IN
  [FlCloseController(cancelled) EXCEPT !.audioDataController = 0]

\* AudioInputService._handleStreamClosedByNative()
AisHandleStreamClosedByNative(s) ==
  IF s.isRecordingDart
    THEN [FlCloseController([s EXCEPT !.isRecordingDart = FALSE,
                                      !.eventChannelSubscription = FALSE])
            EXCEPT !.audioDataController = 0]
    ELSE s

\* startProcessing after startRecording returned true: the timer is started.
VpsRecordingStarted(s) ==
  [s EXCEPT !.transcriptionTimer = "active",
            !.pc = "idle",
            !.obliged = TRUE,
            !.last = FlEvent("startProcessing", "started")]

\* startProcessing once permission is granted: listening is announced, the
\* previous subscription cancelled, audioDataStream (which creates the
\* controller when there is none) listened to, and startRecording called,
\* which returns true at once when the service is recording already.
VpsSubscribeAndStart(s) ==
  LET fresh == s.audioDataController = 0
      ctrl == IF fresh THEN s.controllers + 1 ELSE s.audioDataController
      subscribed == [s EXCEPT !.state = "listening",
                              !.isListening = TRUE,
                              !.startRecordingCalls = @ + 1,
                              !.controllers = IF fresh THEN @ + 1 ELSE @,
                              !.audioDataController = ctrl,
                              !.audioDataSubscription = ctrl,
                              !.subscriptionLive = TRUE] IN
  IF subscribed.isRecordingDart
    THEN VpsRecordingStarted([subscribed EXCEPT !.aisResult = "true"])
    ELSE [AisStartRecordingBegin(subscribed) EXCEPT !.last = FlEvent("startProcessing", "pending")]

\* The start of a step: a method call counts, the error count is of this step.
FlCall(s) == [s EXCEPT !.calls = @ + 1, !.errors = 0, !.threw = FALSE]

FlStep(s) == [s EXCEPT !.errors = 0, !.threw = FALSE]

\* CactusSTTService.initialize: true at once when initialized; otherwise the
\* context is what cactus_stt_init returned.
SttInitialize(sttContext, ok) == sttContext \/ ok

\* VoiceProcessorService.initialize(modelPath:language:)
FL_initialize ==
  /\ fl.pc = "idle"
  /\ fl.calls < MaxFlCalls
  /\ \E ok \in BOOLEAN :
       LET s == FlCall(fl)
           success == SttInitialize(s.sttContext, ok) IN
       fl' = IF s.isSTTInitialized
               THEN [s EXCEPT !.state = "sttInitialized",
                              !.last = FlEvent("initialize", "already")]
             ELSE IF success
               THEN [s EXCEPT !.sttContext = TRUE,
                              !.isSTTInitialized = TRUE,
                              !.state = "sttInitialized",
                              !.last = FlEvent("initialize", "initialized")]
               ELSE [s EXCEPT !.isSTTInitialized = FALSE,
                              !.state = "error",
                              !.errors = 1,
                              !.last = FlEvent("initialize", "failed")]

\* startProcessing going on to record although the STT is not initialized.
VpsNotInitializedProceeds(s) ==
  [VpsSubscribeAndStart(s) EXCEPT !.last = FlEvent("startProcessing", "notInitialized")]

\* startProcessing when the STT is not initialized: an error and the error
\* state are emitted, and the method returns.
VpsNotInitialized(s) ==
  [s EXCEPT !.errors = 1,
            !.state = "error",
            !.last = FlEvent("startProcessing", "notInitialized")]

\* startProcessing when the permission was asked for and not granted: an error
\* and the error state are emitted, and the method returns.
VpsPermissionDenied(s) ==
  [s EXCEPT !.errors = 1,
            !.state = "error",
            !.pc = "idle",
            !.last = FlEvent("startProcessing", "permissionDenied")]

\* VoiceProcessorService.startProcessing(), up to hasPermission().
FL_startProcessing ==
  /\ fl.pc = "idle"
  /\ fl.calls < MaxFlCalls
  /\ LET s == FlCall(fl) IN
     fl' = IF ~s.isSTTInitialized
             THEN VpsNotInitialized(s)
           ELSE IF s.isListening
             THEN [s EXCEPT !.last = FlEvent("startProcessing", "alreadyListening")]
             ELSE [s EXCEPT !.pc = "hasPermission",
                            !.last = FlEvent("startProcessing", "pending")]

\* hasPermission() replied (false also when the platform call threw).
FL_hasPermission ==
  /\ fl.pc = "hasPermission"
  /\ \E granted \in BOOLEAN :
       fl' = IF granted
               THEN VpsSubscribeAndStart(FlStep(fl))
               ELSE [FlStep(fl) EXCEPT !.pc = "requestPermission"]

\* requestPermission() replied.
FL_requestPermission ==
  /\ fl.pc = "requestPermission"
  /\ \E granted \in BOOLEAN :
       fl' = IF granted
               THEN VpsSubscribeAndStart(FlStep(fl))
               ELSE VpsPermissionDenied(FlStep(fl))

\* The native startRecording replied: AudioInputService.startRecording
\* returns true, or cleans up and returns false on a PlatformException, and
\* startProcessing finishes.
FL_startRecordingReply ==
  /\ fl.pc = "startRecording"
  /\ \E ok \in BOOLEAN :
       fl' = IF ok
               THEN VpsRecordingStarted([FlStep(fl) EXCEPT !.isRecordingDart = TRUE,
                                                           !.nativeRecording = TRUE,
                                                           !.aisResult = "true"])
               ELSE [AisDropStreams([FlStep(fl) EXCEPT !.isRecordingDart = FALSE,
                                                       !.aisResult = "false",
                                                       !.threw = TRUE])
                       EXCEPT !.errors = 1,
                              !.state = "error",
                              !.isListening = FALSE,
                              !.subscriptionLive = FALSE,
                              !.pc = "idle",
                              !.last = FlEvent("startProcessing", "recordingFailed")]

\* stopProcessing after stopRecording returned: the subscription is cancelled
\* and forgotten, a last transcription is fetched when the STT is
\* initialized, and the resting state is announced.
VpsStopFinishKeepsSubscription(s) ==
  [s EXCEPT !.finalTranscriptions = IF s.isSTTInitialized THEN @ + 1 ELSE @,
            !.state = IF s.isSTTInitialized THEN "sttInitialized" ELSE "idle",
            !.pc = "idle",
            !.last = FlEvent("stopProcessing", "stopped")]

VpsStopFinish(s) ==
  [s EXCEPT !.audioDataSubscription = 0,
            !.subscriptionLive = FALSE,
            !.finalTranscriptions = IF s.isSTTInitialized THEN @ + 1 ELSE @,
            !.state = IF s.isSTTInitialized THEN "sttInitialized" ELSE "idle",
            !.pc = "idle",
            !.last = FlEvent("stopProcessing", "stopped")]

\* AudioInputService.stopRecording() has nothing to stop.
AisNothingToStop(s) ==
  ~s.isRecordingDart /\ ~s.eventChannelSubscription /\ s.audioDataController = 0

\* VoiceProcessorService.stopProcessing(), up to the native stopRecording.
FL_stopProcessing ==
  /\ fl.pc = "idle"
  /\ fl.calls < MaxFlCalls
  /\ LET s == [FlCall(fl) EXCEPT !.obliged = FALSE] IN
     fl' = IF ~s.isListening
             THEN [s EXCEPT !.transcriptionTimer = "null",
                            !.audioDataSubscription = 0,
                            !.subscriptionLive = FALSE,
                            !.state = IF s.isSTTInitialized THEN "sttInitialized" ELSE "idle",
                            !.last = FlEvent("stopProcessing", "notListening")]
             ELSE LET stopping == [s EXCEPT !.isListening = FALSE,
                                            !.stopRecordingCalls = @ + 1,
                                            !.state = "processing",
                                            !.transcriptionTimer = "null"] IN
                  IF AisNothingToStop(stopping)
                    THEN VpsStopFinish([stopping EXCEPT !.isRecordingDart = FALSE,
                                                        !.aisResult = "true"])
                    ELSE [stopping EXCEPT !.isRecordingDart = FALSE,
                                          !.pc = "stopRecording",
                                          !.last = FlEvent("stopProcessing", "pending")]

\* The native stopRecording replied, or threw a PlatformException: either way
\* AudioInputService.stopRecording drops its streams, and stopProcessing
\* finishes.
FL_stopRecordingReply ==
  /\ fl.pc = "stopRecording"
  /\ \E ok \in BOOLEAN :
       fl' = VpsStopFinish(AisDropStreams(
               [FlStep(fl) EXCEPT !.nativeRecording = IF ok THEN FALSE ELSE @,
                                  !.aisResult = IF ok THEN "true" ELSE "false",
                                  !.threw = ~ok]))

FlEventKinds == {"chunk", "badChunk", "mapError", "null", "unknown", "error", "done"}

\* One event of the native audio stream reaches the listener startRecording
\* gave the event channel (data, error or done callback).
FlOnEvent(s, kind) ==
  CASE kind = "chunk" -> FlAddChunk(s)
    [] kind \in {"badChunk", "mapError", "unknown"} ->
         [FlAddError(s) EXCEPT !.last = FlEvent("event", kind)]
    [] kind = "null" ->
         [AisHandleStreamClosedByNative(s) EXCEPT !.last = FlEvent("event", kind)]
    [] kind = "error" ->
         [FlAddError(s) EXCEPT !.isRecordingDart = FALSE, !.last = FlEvent("event", kind)]
    [] OTHER ->
         [AisHandleStreamClosedByNative(s) EXCEPT !.eventLive = FALSE,
                                                  !.nativeRecording = FALSE,
                                                  !.last = FlEvent("event", kind)]

FL_nativeEvent ==
  /\ fl.eventLive
  /\ fl.events < MaxFlEvents
  /\ \E kind \in FlEventKinds :
       /\ (kind = "chunk" => fl.nativeRecording)
       /\ fl' = FlOnEvent([FlStep(fl) EXCEPT !.events = @ + 1], kind)

\* The periodic timer of startProcessing fires: a transcription is fetched
\* unless the service is not listening or the STT is not initialized.
FL_timerTick ==
  /\ fl.transcriptionTimer = "active"
  /\ fl' = [FlStep(fl) EXCEPT !.last =
              FlEvent("timer", IF ~fl.isListening \/ ~fl.sttContext
                                 THEN "skipped" ELSE "getTranscription")]

\* =======================================================================
\* cactus::cactus_context: loadPrompt, beginCompletion, nextToken.
\* Its tests and callers are in the sources, its implementation is not: the
\* operations follow the specification's words ("prompt tokenization and
\* truncation policy, an incremental token-generation loop with
\* stopping-criteria evaluation": "tokenize -> loop{ sample one token via
\* library call, check stop conditions, append } -> detokenize").
\* =======================================================================

CtxSizes == {4, 6}            \* params.n_ctx
CtxBatches == {2, 8}          \* params.n_batch
CtxPredicts == {-1, 0, 1, 2, 3} \* params.n_predict; -1 is no limit
CtxTokens == {"eos", "t1"}    \* what the sampler can return

CtxEvent(op, tok) == [op |-> op, tok |-> tok]

CtxFresh(n_ctx, n_batch, n_predict, prompt) ==
  [ n_ctx |-> n_ctx, n_batch |-> n_batch, n_predict |-> n_predict,
    prompt |-> prompt,              \* tokens in the tokenization of params.prompt
    num_prompt_tokens |-> 0,
    truncated |-> FALSE,
    has_next_token |-> FALSE,
    stopped_eos |-> FALSE,
    stopped_limit |-> FALSE,
    num_tokens_predicted |-> 0,
    phase |-> "loaded",             \* "loaded", "prompt", "completing"
    last |-> CtxEvent("loadModel", NULL) ]

\* A context after loadModel and initSampling, with any parameters and prompt.
CTX_Init ==
  \E n_ctx \in CtxSizes, n_batch \in CtxBatches, n_predict \in CtxPredicts,
     prompt \in 1..MaxPromptTokens :
    ctx = CtxFresh(n_ctx, n_batch, n_predict, prompt)

CTX_Idle == ctx = CtxFresh(4, 2, 0, 1)

\* The prompt does not fit one batch.
PromptTooLongForBatch(num_prompt_tokens, n_ctx, n_batch) == num_prompt_tokens >= n_batch

\* The prompt leaves no room in the context.
PromptTooLong(num_prompt_tokens, n_ctx, n_batch) == num_prompt_tokens >= n_ctx

\* loadPrompt(): the prompt is tokenized; one that leaves no room in the
\* context is cut, to a length the truncation policy chooses below n_ctx,
\* and the context is flagged truncated.
CTX_loadPrompt ==
  /\ ctx.phase = "loaded"
  /\ IF PromptTooLong(ctx.prompt, ctx.n_ctx, ctx.n_batch)
       THEN \E kept \in 1..(ctx.n_ctx - 1) :
              ctx' = [ctx EXCEPT !.num_prompt_tokens = kept,
                                 !.truncated = TRUE,
                                 !.has_next_token = TRUE,
                                 !.phase = "prompt",
                                 !.last = CtxEvent("loadPrompt", NULL)]
       ELSE ctx' = [ctx EXCEPT !.num_prompt_tokens = ctx.prompt,
                               !.has_next_token = TRUE,
                               !.phase = "prompt",
                               !.last = CtxEvent("loadPrompt", NULL)]

\* beginCompletion(): the generation starts with nothing predicted.
CTX_beginCompletion ==
  /\ ctx.phase = "prompt"
  /\ ctx' = [ctx EXCEPT !.num_tokens_predicted = 0,
                         !.phase = "completing",
                         !.last = CtxEvent("beginCompletion", NULL)]

\* The limit noticed one token late.
CtxLimitOffByOne(n_predict, predicted) == n_predict >= 0 /\ predicted > n_predict

\* The limit stop condition: n_predict tokens have been predicted.
CtxLimitReached(n_predict, predicted) == n_predict >= 0 /\ predicted >= n_predict

\* stopped_eos if the limit were checked before the end-of-sequence token.
StoppedEosLimitFirst(tok, limitReached, old) == old \/ (tok = "eos" /\ ~limitReached)

\* stopped_eos after a token was sampled.
StoppedEos(tok, limitReached, old) == old \/ tok = "eos"

\* nextToken(), called while has_next_token: one token is sampled and
\* appended, then the stop conditions are checked.
CTX_nextToken ==
  /\ ctx.phase = "completing"
  /\ ctx.has_next_token
  /\ ctx.num_tokens_predicted < MaxCtxTokens
  /\ \E tok \in CtxTokens :
       LET predicted == ctx.num_tokens_predicted + 1
           limit == CtxLimitReached(ctx.n_predict, predicted) IN
       ctx' = [ctx EXCEPT !.num_tokens_predicted = predicted,
                          !.stopped_eos = StoppedEos(tok, limit, @),
                          !.stopped_limit = @ \/ (tok # "eos" /\ limit),
                          !.has_next_token = tok # "eos" /\ ~limit,
                          !.last = CtxEvent("nextToken", tok)]

\* =======================================================================
\* cactus::STT (cactus_stt.h, cactus_stt.cpp).  setUserVocabulary and the
\* stored vocabulary are used by the tests and the bindings but are not in
\* the sources at hand: they follow the tests' and the README's words.
\* =======================================================================

Vocabularies == {"", "v1", "v2"}
SttLanguages == {"en", "fr"}

SttEvent(op, res) == [op |-> op, res |-> res]

\* STT::STT()
STT_Init ==
  stt = [ ctx_ |-> FALSE,               \* ctx_ != nullptr
          language_ |-> "en",
          user_vocabulary_ |-> "",
          vocabularyCalls |-> <<>>,     \* history: the arguments of setUserVocabulary, in call order
          initial_prompt |-> NULL,      \* the initial_prompt of the last whisper_full call
          whisper_full_calls |-> 0,     \* whisper_full calls so far
          calls |-> 0,
          last |-> SttEvent("STT", "constructed") ]

STT_Idle == STT_Init

\* STT::initialize(model_path, language, use_gpu)
STT_initialize ==
  /\ stt.calls < MaxSttCalls
  /\ \E language \in SttLanguages, ok \in BOOLEAN :
       stt' = IF stt.ctx_
                THEN [stt EXCEPT !.calls = @ + 1, !.last = SttEvent("initialize", FALSE)]
                ELSE [stt EXCEPT !.calls = @ + 1,
                                 !.language_ = language,
                                 !.ctx_ = ok,
                                 !.last = SttEvent("initialize", ok)]

\* STT::processAudio(samples): false without a context or without samples;
\* otherwise whisper_full runs with the default parameters and language_,
\* and its result decides.
STT_processAudio ==
  /\ stt.calls < MaxSttCalls
  /\ \E empty \in BOOLEAN, ok \in BOOLEAN :
       stt' = IF ~stt.ctx_ \/ empty
                THEN [stt EXCEPT !.calls = @ + 1, !.last = SttEvent("processAudio", FALSE)]
                ELSE [stt EXCEPT !.calls = @ + 1,
                                 !.initial_prompt = NULL,
                                 !.whisper_full_calls = @ + 1,
                                 !.last = SttEvent("processAudio", ok)]

\* The vocabulary stored if an empty argument were ignored.
StoredVocabularyUnlessEmpty(vocabulary, old) == IF vocabulary = "" THEN old ELSE vocabulary

\* The vocabulary setUserVocabulary stores.
StoredVocabulary(vocabulary, old) == vocabulary

\* STT::setUserVocabulary(vocabulary)
STT_setUserVocabulary ==
  /\ stt.calls < MaxSttCalls
  /\ \E vocabulary \in Vocabularies :
       stt' = [stt EXCEPT !.calls = @ + 1,
                          !.user_vocabulary_ = StoredVocabulary(vocabulary, @),
                          !.vocabularyCalls = Append(@, vocabulary),
                          !.last = SttEvent("setUserVocabulary", vocabulary)]

\* =======================================================================
\* cactus-react/src/VoiceToText.ts
\* =======================================================================

VttEvent(op, res, val) == [op |-> op, res |-> res, val |-> val]

VTT_Init ==
  /\ vtt_platform \in {"ios", "android"}
  /\ vtt_hasAudioMethods \in BOOLEAN
  /\ (vtt_platform = "ios" => vtt_hasAudioMethods)
  /\ vtt_modelPath = NULL
  /\ vtt_isRecording = FALSE
  /\ vtt_currentTranscription = NULL
  /\ vtt_subscribed = TRUE
  /\ vtt_pending = <<>>
  /\ vtt_events = <<>>
  /\ vtt_nativeCalls = 0
  /\ vtt_calls = 0
  /\ vtt_last = VttEvent("constructor", "returned", NULL)
  /\ vtt_initCalled = FALSE
  /\ vtt_initOK = {}
  /\ nat_sttContext = FALSE
  /\ nat_audioRecorder = FALSE
  /\ vtt_lastResolved = NULL

VttCanCall == vtt_calls < MaxVttCalls /\ Len(vtt_pending) < MaxVttPending

\* A native module method is invoked: its promise is in flight.
VttInvoke(op, arg) ==
  /\ vtt_pending' = Append(vtt_pending, [op |-> op, arg |-> arg])
  /\ vtt_nativeCalls' = vtt_nativeCalls + 1

VttNoInvoke == UNCHANGED <<vtt_pending, vtt_nativeCalls>>

\* requestPermissions(): the native promise is returned when the platform's
\* module has the method; otherwise the method resolves false.
VTT_requestPermissions ==
  /\ VttCanCall
  /\ vtt_calls' = vtt_calls + 1
  /\ IF vtt_hasAudioMethods
       THEN /\ VttInvoke("requestPermissions", NULL)
            /\ vtt_last' = VttEvent("requestPermissions", "pending", NULL)
       ELSE /\ VttNoInvoke
            /\ vtt_last' = VttEvent("requestPermissions", "resolved", "false")
  /\ UNCHANGED <<vtt_platform, vtt_hasAudioMethods, vtt_modelPath, vtt_isRecording,
                 vtt_currentTranscription, vtt_subscribed, vtt_events,
                 vtt_initCalled, vtt_initOK, nat_sttContext, nat_audioRecorder>>

\* start() without its modelPath check.
StartPathUnchecked(isRecording, modelPath, hasAudio) ==
  IF isRecording THEN "already"
  ELSE IF hasAudio THEN "invoke"
  ELSE "unsupported"

\* The path start() takes: the isRecording check comes first, then the
\* modelPath check, then the platform's.
StartPath(isRecording, modelPath, hasAudio) ==
  IF isRecording THEN "already"
  ELSE IF modelPath = NULL THEN "notInitialized"
  ELSE IF hasAudio THEN "invoke"
  ELSE "unsupported"

\* start(), up to its await.
VTT_start ==
  /\ VttCanCall
  /\ vtt_calls' = vtt_calls + 1
  /\ LET path == StartPath(vtt_isRecording, vtt_modelPath, vtt_hasAudioMethods) IN
     CASE path = "already" ->
            /\ VttNoInvoke
            /\ vtt_last' = VttEvent("start", "resolved", AlreadyRecordingMsg)
       [] path = "notInitialized" ->
            /\ VttNoInvoke
            /\ vtt_last' = VttEvent("start", "rejected", NotInitializedMsg)
       [] path = "invoke" ->
            /\ VttInvoke("startRecording", NULL)
            /\ vtt_last' = VttEvent("start", "pending", NULL)
       [] OTHER ->
            /\ VttNoInvoke
            /\ vtt_last' = VttEvent("start", "rejected", "startRecording not implemented for this platform.")
  /\ UNCHANGED <<vtt_platform, vtt_hasAudioMethods, vtt_modelPath, vtt_isRecording,
                 vtt_currentTranscription, vtt_subscribed, vtt_events,
                 vtt_initCalled, vtt_initOK, nat_sttContext, nat_audioRecorder>>

\* stop() without its isRecording check.
StopPathUnchecked(isRecording, hasAudio) ==
  IF hasAudio THEN "invoke" ELSE "unsupported"

\* The path stop() takes: the isRecording check, then the platform's.
StopPath(isRecording, hasAudio) ==
  IF ~isRecording THEN "none"
  ELSE IF hasAudio THEN "invoke"
  ELSE "unsupported"

\* stop(), up to its await.
VTT_stop ==
  /\ VttCanCall
  /\ vtt_calls' = vtt_calls + 1
  /\ LET path == StopPath(vtt_isRecording, vtt_hasAudioMethods) IN
     CASE path = "none" ->
            /\ VttNoInvoke
            /\ vtt_last' = VttEvent("stop", "resolved", NULL)
       [] path = "invoke" ->
            /\ VttInvoke("stopRecording", NULL)
            /\ vtt_last' = VttEvent("stop", "pending", NULL)
       [] OTHER ->
            /\ VttNoInvoke
            /\ vtt_last' = VttEvent("stop", "rejected", "stopRecording not implemented for this platform.")
  /\ UNCHANGED <<vtt_platform, vtt_hasAudioMethods, vtt_modelPath, vtt_isRecording,
                 vtt_currentTranscription, vtt_subscribed, vtt_events,
                 vtt_initCalled, vtt_initOK, nat_sttContext, nat_audioRecorder>>

\* The value initSTT stores in modelPath before it calls the native module.
ModelPathOnInitCall(path, old) == path

\* initSTT(modelPath): modelPath is assigned, then the native promise returned.
VTT_initSTT ==
  /\ VttCanCall
  /\ \E path \in Paths :
       /\ vtt_modelPath' = ModelPathOnInitCall(path, vtt_modelPath)
       /\ VttInvoke("initSTT", path)
  /\ vtt_calls' = vtt_calls + 1
  /\ vtt_initCalled' = TRUE
  /\ vtt_last' = VttEvent("initSTT", "pending", NULL)
  /\ UNCHANGED <<vtt_platform, vtt_hasAudioMethods, vtt_isRecording,
                 vtt_currentTranscription, vtt_subscribed, vtt_events,
                 vtt_initOK, nat_sttContext, nat_audioRecorder>>

\* processAudio(audioPath), up to its await.  `op` names the caller: the
\* method itself or the onAudioData listener.
VttProcessAudio(op, audioPath) ==
  IF vtt_modelPath = NULL
    THEN /\ VttNoInvoke
         /\ vtt_last' = VttEvent(op, "rejected", NotInitializedMsg)
    ELSE /\ VttInvoke("processAudioFile", audioPath)
         /\ vtt_last' = VttEvent(op, "pending", NULL)

VTT_processAudio ==
  /\ VttCanCall
  /\ vtt_calls' = vtt_calls + 1
  /\ \E a \in AudioFiles : VttProcessAudio("processAudio", a)
  /\ UNCHANGED <<vtt_platform, vtt_hasAudioMethods, vtt_modelPath, vtt_isRecording,
                 vtt_currentTranscription, vtt_subscribed, vtt_events,
                 vtt_initCalled, vtt_initOK, nat_sttContext, nat_audioRecorder>>

\* getTranscription()
VttGetTranscription == vtt_currentTranscription

\* releaseSTT(), up to its await.
VttReleaseSTT(op) ==
  IF vtt_modelPath # NULL
    THEN /\ VttInvoke("releaseSTT", NULL)
         /\ vtt_last' = VttEvent(op, "pending", NULL)
    ELSE /\ VttNoInvoke
         /\ vtt_last' = VttEvent(op, "resolved", NULL)

VTT_releaseSTT ==
  /\ VttCanCall
  /\ vtt_calls' = vtt_calls + 1
  /\ VttReleaseSTT("releaseSTT")
  /\ UNCHANGED <<vtt_platform, vtt_hasAudioMethods, vtt_modelPath, vtt_isRecording,
                 vtt_currentTranscription, vtt_subscribed, vtt_events,
                 vtt_initCalled, vtt_initOK, nat_sttContext, nat_audioRecorder>>

\* release(): both subscriptions are removed, then releaseSTT() is started.
VTT_release ==
  /\ VttCanCall
  /\ vtt_calls' = vtt_calls + 1
  /\ vtt_subscribed' = FALSE
  /\ VttReleaseSTT("release")
  /\ UNCHANGED <<vtt_platform, vtt_hasAudioMethods, vtt_modelPath, vtt_isRecording,
                 vtt_currentTranscription, vtt_events,
                 vtt_initCalled, vtt_initOK, nat_sttContext, nat_audioRecorder>>

\* The onAudioData listener of setupListeners(): processAudio(data.filePath) is
\* started when a model path is set.  An event whose listener was removed is
\* dropped by the emitter.
\* The listener without the emitter's removal of it.
AudioDataProcessedUnsubscribed(subscribed, modelPath, filePath) ==
  modelPath # NULL /\ filePath # NULL

\* An onAudioData event starts processAudio: the listener is still registered
\* and its condition `this.modelPath && data.filePath` holds.
AudioDataProcessed(subscribed, modelPath, filePath) ==
  subscribed /\ modelPath # NULL /\ filePath # NULL

VTT_onAudioData ==
  /\ vtt_events # <<>>
  /\ Len(vtt_pending) < MaxVttPending
  /\ vtt_events' = Tail(vtt_events)
  /\ IF AudioDataProcessed(vtt_subscribed, vtt_modelPath, Head(vtt_events))
       THEN VttProcessAudio("onAudioData", Head(vtt_events))
       ELSE /\ VttNoInvoke
            /\ vtt_last' = VttEvent("onAudioData", "ignored", NULL)
  /\ UNCHANGED <<vtt_platform, vtt_hasAudioMethods, vtt_modelPath, vtt_isRecording,
                 vtt_currentTranscription, vtt_subscribed, vtt_calls,
                 vtt_initCalled, vtt_initOK, nat_sttContext, nat_audioRecorder>>

RemoveAt(s, i) == SubSeq(s, 1, i - 1) \o SubSeq(s, i + 1, Len(s))

\* The native module runs its methods one after the other and settles each
\* promise as it runs it; only requestPermissions settles from a callback of
\* its own, at any time.
VttCanSettle(i) ==
  /\ i \in 1..Len(vtt_pending)
  /\ \/ vtt_pending[i].op = "requestPermissions"
     \/ \A j \in 1..(i - 1) : vtt_pending[j].op = "requestPermissions"

VttSettled(i, op) ==
  /\ VttCanSettle(i)
  /\ vtt_pending[i].op = op
  /\ vtt_pending' = RemoveAt(vtt_pending, i)

\* AudioInputModule.requestPermissions (iOS): resolve(true) when granted,
\* reject("permission_denied") when not.  A module for Android resolves with the
\* permission's state.
NativeRequestPermissions(platform, granted) ==
  IF granted THEN VttEvent("requestPermissions", "resolved", "true")
  ELSE IF platform = "ios"
    THEN VttEvent("requestPermissions", "rejected", "permission_denied")
    ELSE VttEvent("requestPermissions", "resolved", "false")

VTT_settleRequestPermissions ==
  /\ \E i \in 1..Len(vtt_pending) : VttSettled(i, "requestPermissions")
  /\ \E granted \in BOOLEAN :
       vtt_last' = NativeRequestPermissions(vtt_platform, granted)
  /\ UNCHANGED <<vtt_platform, vtt_hasAudioMethods, vtt_modelPath, vtt_isRecording,
                 vtt_currentTranscription, vtt_subscribed, vtt_events,
                 vtt_nativeCalls, vtt_calls, vtt_initCalled, vtt_initOK,
                 nat_sttContext, nat_audioRecorder>>

\* isRecording after the native startRecording promise settled.
IsRecordingAfterStart(resolved, old) == IF resolved THEN TRUE ELSE old

\* isRecording cleared whether or not the native stopRecording resolved.
IsRecordingClearedAlways(resolved, old) == FALSE

\* isRecording after the native stopRecording promise settled.
IsRecordingAfterStop(resolved, old) == IF resolved THEN FALSE ELSE old

\* Native startRecording settles; start() continues after its await.
VTT_settleStartRecording ==
  /\ \E i \in 1..Len(vtt_pending) : VttSettled(i, "startRecording")
  /\ \E ok \in BOOLEAN :
       /\ nat_audioRecorder' = IF ok THEN TRUE ELSE nat_audioRecorder
       /\ vtt_isRecording' = IsRecordingAfterStart(ok, vtt_isRecording)
       /\ vtt_last' = IF ok THEN VttEvent("start", "resolved", "Recording started")
                            ELSE VttEvent("start", "rejected", "start_recording_failed")
  /\ UNCHANGED <<vtt_platform, vtt_hasAudioMethods, vtt_modelPath,
                 vtt_currentTranscription, vtt_subscribed, vtt_events,
                 vtt_nativeCalls, vtt_calls, vtt_initCalled, vtt_initOK,
                 nat_sttContext>>

\* The filePath of the onAudioData event a native module sends: AudioInputModule
\* (iOS) always sends the recording's path; on Android the events of the device
\* emitter include those of RNAudioInputModule, whose body is an array of
\* samples and has no filePath.
NativeFilePaths(platform) == IF platform = "ios" THEN {"a1"} ELSE {"a1", NULL}

\* Native stopRecording settles: without a recorder it rejects; with one it
\* stops it and either sends onAudioData and resolves, or rejects (no file, an
\* empty file, the session could not be deactivated).  stop() continues.
VTT_settleStopRecording ==
  /\ \E i \in 1..Len(vtt_pending) : VttSettled(i, "stopRecording")
  /\ \E fileOK \in BOOLEAN, filePath \in NativeFilePaths(vtt_platform) :
       LET ok == nat_audioRecorder /\ fileOK IN
       /\ nat_audioRecorder' = FALSE
       /\ vtt_events' = IF ok THEN Append(vtt_events, filePath) ELSE vtt_events
       /\ vtt_isRecording' = IsRecordingAfterStop(ok, vtt_isRecording)
       /\ vtt_last' = IF ok THEN VttEvent("stop", "resolved", "a1")
                      ELSE IF nat_audioRecorder
                        THEN VttEvent("stop", "rejected", "file_error")
                        ELSE VttEvent("stop", "rejected", "not_recording")
  /\ UNCHANGED <<vtt_platform, vtt_hasAudioMethods, vtt_modelPath,
                 vtt_currentTranscription, vtt_subscribed,
                 vtt_nativeCalls, vtt_calls, vtt_initCalled, vtt_initOK,
                 nat_sttContext>>

\* Native initSTT settles: a context held is freed, then RN_STT_init either
\* gives a context (resolve) or null (reject).  initSTT() has no code after it.
VTT_settleInitSTT ==
  /\ \E i \in 1..Len(vtt_pending), ok \in BOOLEAN :
       /\ VttSettled(i, "initSTT")
       /\ nat_sttContext' = ok
       /\ vtt_initOK' = IF ok THEN vtt_initOK \cup {vtt_pending[i].arg} ELSE vtt_initOK
       /\ vtt_last' = IF ok THEN VttEvent("initSTT", "resolved", NULL)
                            ELSE VttEvent("initSTT", "rejected", "stt_init_failed")
  /\ UNCHANGED <<vtt_platform, vtt_hasAudioMethods, vtt_modelPath, vtt_isRecording,
                 vtt_currentTranscription, vtt_subscribed, vtt_events,
                 vtt_nativeCalls, vtt_calls, vtt_initCalled, nat_audioRecorder>>

\* currentTranscription after the native processAudioFile promise resolved,
\* had processAudio not stored it.
TranscriptionNotStored(transcription, old) == old

\* currentTranscription after the native processAudioFile promise resolved.
TranscriptionAfterProcess(transcription, old) == transcription

\* Native processAudioFile settles: without a context it rejects; with one it
\* resolves with the transcription or rejects.  processAudio() continues.
VTT_settleProcessAudioFile ==
  /\ \E i \in 1..Len(vtt_pending) : VttSettled(i, "processAudioFile")
  /\ \/ /\ nat_sttContext
        /\ \E t \in Texts :
             /\ vtt_currentTranscription' = TranscriptionAfterProcess(t, vtt_currentTranscription)
             /\ vtt_last' = VttEvent("processAudio", "resolved", t)
     \/ /\ vtt_currentTranscription' = vtt_currentTranscription
        /\ vtt_last' = VttEvent("processAudio", "rejected",
                                IF nat_sttContext THEN "stt_process_failed" ELSE "STT_ERROR")
  /\ UNCHANGED <<vtt_platform, vtt_hasAudioMethods, vtt_modelPath, vtt_isRecording,
                 vtt_subscribed, vtt_events,
                 vtt_nativeCalls, vtt_calls, vtt_initCalled, vtt_initOK,
                 nat_sttContext, nat_audioRecorder>>

\* currentTranscription left as it was by a releaseSTT that resolved.
TranscriptionKeptAfterRelease(old) == old

\* currentTranscription after the native releaseSTT promise resolved.
TranscriptionAfterRelease(old) == NULL

\* Native releaseSTT settles: on iOS it frees the context, if any, and always
\* resolves; the Android module's JNI call may reject.  releaseSTT() continues.
VTT_settleReleaseSTT ==
  /\ \E i \in 1..Len(vtt_pending) : VttSettled(i, "releaseSTT")
  /\ \/ /\ nat_sttContext' = FALSE
        /\ vtt_modelPath' = NULL
        /\ vtt_currentTranscription' = TranscriptionAfterRelease(vtt_currentTranscription)
        /\ vtt_initCalled' = FALSE
        /\ vtt_initOK' = {}
        /\ vtt_last' = VttEvent("releaseSTT", "resolved", NULL)
     \/ /\ vtt_platform = "android"
        /\ UNCHANGED <<nat_sttContext, vtt_modelPath, vtt_currentTranscription,
                       vtt_initCalled, vtt_initOK>>
        /\ vtt_last' = VttEvent("releaseSTT", "rejected", "release_failed")
  /\ UNCHANGED <<vtt_platform, vtt_hasAudioMethods, vtt_isRecording,
                 vtt_subscribed, vtt_events,
                 vtt_nativeCalls, vtt_calls, nat_audioRecorder>>

\* =======================================================================
\* cactus-flutter CactusSTTService (Dart), called directly.  Its methods are
\* declared async but await nothing: each runs to its end in one step.  A
\* context is named by the number of the cactus_stt_init call that gave it.
\* =======================================================================

DsEvent(op, res) == [op |-> op, res |-> res]

DS_Init ==
  ds = [ sttContext |-> 0,                           \* _sttContext: 0 is nullptr
         contexts |-> 0,                             \* contexts cactus_stt_init has given so far
         freeCount |-> [c \in 1..MaxDsCalls |-> 0],  \* times each context was passed to cactus_stt_free
         nativeCalls |-> 0,                          \* native functions called so far
         usedFreed |-> FALSE,                        \* history: a native function was passed a freed context
         calls |-> 0,                                \* methods called so far
         last |-> DsEvent("constructor", "done") ]

DS_Idle == DS_Init

\* get isInitialized
DsIsInitialized(s) == s.sttContext # 0

\* A native function is called with _sttContext.
DsNative(s) ==
  [s EXCEPT !.nativeCalls = @ + 1,
            !.usedFreed = @ \/ (s.sttContext # 0 /\ s.freeCount[s.sttContext] > 0)]

DsCall(s) == [s EXCEPT !.calls = @ + 1]

\* initialize(modelPath, language): cactus_stt_init gives a context, gives
\* nullptr, or the call throws.
DS_initialize ==
  /\ ds.calls < MaxDsCalls
  /\ \E outcome \in {"context", "nullptr", "threw"} :
       LET s == DsCall(ds) IN
       ds' = IF DsIsInitialized(s)
               THEN [s EXCEPT !.last = DsEvent("initialize", "true")]
             ELSE IF outcome = "context"
               THEN [s EXCEPT !.nativeCalls = @ + 1,
                              !.contexts = @ + 1,
                              !.sttContext = s.contexts + 1,
                              !.last = DsEvent("initialize", "true")]
               ELSE [s EXCEPT !.nativeCalls = @ + 1,
                              !.sttContext = 0,
                              !.last = DsEvent("initialize", "false")]

\* processAudioChunk(audioSamples)
DS_processAudioChunk ==
  /\ ds.calls < MaxDsCalls
  /\ \E empty \in BOOLEAN, outcome \in {"true", "false", "threw"} :
       LET s == DsCall(ds) IN
       ds' = IF ~DsIsInitialized(s)
               THEN [s EXCEPT !.last = DsEvent("processAudioChunk", "false")]
             ELSE IF empty
               THEN [s EXCEPT !.last = DsEvent("processAudioChunk", "false")]
               ELSE [DsNative(s) EXCEPT !.last =
                       DsEvent("processAudioChunk", IF outcome = "true" THEN "true" ELSE "false")]

\* getTranscription(): cactus_stt_get_transcription gives a string, which is
\* then freed with cactus_free_string_c, or nullptr, or the call throws.
DS_getTranscription ==
  /\ ds.calls < MaxDsCalls
  /\ \E outcome \in {"text", "nullptr", "threw"} :
       LET s == DsCall(ds) IN
       ds' = IF ~DsIsInitialized(s)
               THEN [s EXCEPT !.last = DsEvent("getTranscription", "null")]
             ELSE IF outcome = "text"
               THEN [DsNative(s) EXCEPT !.nativeCalls = @ + 1,
                                        !.last = DsEvent("getTranscription", "text")]
               ELSE [DsNative(s) EXCEPT !.last = DsEvent("getTranscription", "null")]

\* _sttContext after free(), had the catch clause left it alone.
DsContextKeptOnThrow(threw, old) == IF threw THEN old ELSE 0

\* _sttContext after free(): nullptr after the call and in the catch clause.
DsContextAfterFree(threw, old) == 0

\* free(): cactus_stt_free returns or throws.
DS_free ==
  /\ ds.calls < MaxDsCalls
  /\ \E threw \in BOOLEAN :
       LET s == DsCall(ds) IN
       ds' = IF ~DsIsInitialized(s)
               THEN [s EXCEPT !.last = DsEvent("free", "notInitialized")]
               ELSE [DsNative(s) EXCEPT
                       !.freeCount[s.sttContext] = @ + 1,
                       !.sttContext = DsContextAfterFree(threw, s.sttContext),
                       !.last = DsEvent("free", IF threw THEN "threw" ELSE "freed")]

\* =======================================================================
\* cactus::kv_cache_type_from_str.  Its test is in the sources
\* (test_kv_cache_type), its implementation is not: the table holds the two
\* names the test converts and the further type names of the library's KV
\* cache, and a name outside the table throws, as the test expects of
\* "invalid_type".
\* =======================================================================

\* The supported KV cache types, by name.
KvCacheTypes ==
  [name \in {"f32", "f16", "bf16", "q8_0", "q4_0", "q4_1", "iq4_nl", "q5_0", "q5_1"} |->
     CASE name = "f32" -> "LM_GGML_TYPE_F32"
       [] name = "f16" -> "LM_GGML_TYPE_F16"
       [] name = "bf16" -> "LM_GGML_TYPE_BF16"
       [] name = "q8_0" -> "LM_GGML_TYPE_Q8_0"
       [] name = "q4_0" -> "LM_GGML_TYPE_Q4_0"
       [] name = "q4_1" -> "LM_GGML_TYPE_Q4_1"
       [] name = "iq4_nl" -> "LM_GGML_TYPE_IQ4_NL"
       [] name = "q5_0" -> "LM_GGML_TYPE_Q5_0"
       [] OTHER -> "LM_GGML_TYPE_Q5_1"]

\* The strings the function is called with.
KvStrings == DOMAIN KvCacheTypes \cup {"invalid_type", "", "F16", "f16 ", "q4"}

KvResult(type, thrown) == [type |-> type, thrown |-> thrown]

\* A conversion that falls back to f16 for a name it does not know.
kv_cache_type_or_default(s) ==
  IF s \in DOMAIN KvCacheTypes
    THEN KvResult(KvCacheTypes[s], NULL)
    ELSE KvResult("LM_GGML_TYPE_F16", NULL)

\* kv_cache_type_from_str(s): the type named s, or std::runtime_error.
kv_cache_type_from_str(s) ==
  IF s \in DOMAIN KvCacheTypes
    THEN KvResult(KvCacheTypes[s], NULL)
    ELSE KvResult(NULL, "std::runtime_error")

KV_Init == kv = [calls |-> 0, s |-> NULL, result |-> KvResult(NULL, NULL)]

KV_Idle == KV_Init

KV_call ==
  /\ kv.calls < MaxKvCalls
  /\ \E s \in KvStrings :
       kv' = [calls |-> kv.calls + 1, s |-> s, result |-> kv_cache_type_from_str(s)]

\* =======================================================================
\* React Native iOS module Cactus (Cactus.mm).  The exported methods run one
\* at a time on the module's method queue; the work they hand to llamaDQueue,
\* a serial queue shared by all contexts, runs later, one block at a time.
\* CactusContext is not in the sources: its isPredicting is taken to be true
\* while a completion runs, which is what the guards of the module rely on.
\* =======================================================================

RnContexts == {1, 2}

RnQueuedOps == {"completion", "loadSession", "saveSession"}
RnDirectOps == {"applyLoraAdapters", "removeLoraAdapters"}

RnEvent(op, c, res) == [op |-> op, c |-> c, res |-> res]

RN_Init ==
  rn = [ llamaContexts |-> {},                        \* keys of llamaContexts
         queue |-> <<>>,                              \* blocks on llamaDQueue, oldest first
         started |-> FALSE,                           \* the oldest block is running
         predicting |-> [c \in RnContexts |-> FALSE], \* [context isPredicting]
         unfinished |-> [c \in RnContexts |-> 0],     \* history: completions accepted and not yet finished
         calls |-> 0,                                 \* methods called so far
         last |-> RnEvent("constructor", 0, "done") ]

RN_Idle == RN_Init

RnCall(s) == [s EXCEPT !.calls = @ + 1]

\* [context isPredicting]
RnIsPredicting(s, c) == s.predicting[c]

\* [context completion:onToken:] begins and ends a prediction; the session
\* methods do not predict.
CactusContextBegin(predicting, op, c) ==
  IF op = "completion" THEN [predicting EXCEPT ![c] = TRUE] ELSE predicting

CactusContextEnd(predicting, op, c) ==
  IF op = "completion" THEN [predicting EXCEPT ![c] = FALSE] ELSE predicting

\* What a method does before its own work: the context is looked up, then
\* asked whether it is predicting.
RnGuard(s, c) ==
  IF c \notin s.llamaContexts THEN "Context not found"
  ELSE IF RnIsPredicting(s, c) THEN "Context is busy"
  ELSE "accepted"

\* initContext(contextId, params): the model loads or does not.
RN_initContext ==
  /\ rn.calls < MaxRnCalls
  /\ \E c \in RnContexts, loaded \in BOOLEAN :
       LET s == RnCall(rn) IN
       rn' = IF c \in s.llamaContexts
               THEN [s EXCEPT !.last = RnEvent("initContext", c, "Context already exists")]
             ELSE IF loaded
               THEN [s EXCEPT !.llamaContexts = @ \cup {c},
                              !.last = RnEvent("initContext", c, "resolved")]
               ELSE [s EXCEPT !.last = RnEvent("initContext", c, "Failed to load the model")]

\* completion, loadSession, saveSession: past the guard the work is handed to
\* llamaDQueue and the method returns.
RnQueued(s, op, c) ==
  IF RnGuard(s, c) = "accepted"
    THEN [s EXCEPT !.queue = Append(@, [op |-> op, c |-> c]),
                   !.unfinished[c] = IF op = "completion" THEN @ + 1 ELSE @,
                   !.last = RnEvent(op, c, "accepted")]
    ELSE [s EXCEPT !.last = RnEvent(op, c, RnGuard(s, c))]

RN_completion ==
  /\ rn.calls < MaxRnCalls
  /\ \E c \in RnContexts : rn' = RnQueued(RnCall(rn), "completion", c)

RN_loadSession ==
  /\ rn.calls < MaxRnCalls
  /\ \E c \in RnContexts : rn' = RnQueued(RnCall(rn), "loadSession", c)

RN_saveSession ==
  /\ rn.calls < MaxRnCalls
  /\ \E c \in RnContexts : rn' = RnQueued(RnCall(rn), "saveSession", c)

\* applyLoraAdapters, removeLoraAdapters: past the guard the context is
\* changed at once, on the method queue.
RnDirect(s, op, c) ==
  [s EXCEPT !.last = RnEvent(op, c, IF RnGuard(s, c) = "accepted" THEN "resolved"
                                                                  ELSE RnGuard(s, c))]

RN_applyLoraAdapters ==
  /\ rn.calls < MaxRnCalls
  /\ \E c \in RnContexts : rn' = RnDirect(RnCall(rn), "applyLoraAdapters", c)

RN_removeLoraAdapters ==
  /\ rn.calls < MaxRnCalls
  /\ \E c \in RnContexts : rn' = RnDirect(RnCall(rn), "removeLoraAdapters", c)

\* releaseContext(contextId): for a context held, dispatch_barrier_sync keeps
\* the method queue until llamaDQueue is empty; then the context is removed.
RN_releaseContext ==
  /\ rn.calls < MaxRnCalls
  /\ \E c \in RnContexts :
       LET s == RnCall(rn) IN
       IF c \notin s.llamaContexts
         THEN rn' = [s EXCEPT !.last = RnEvent("releaseContext", c, "Context not found")]
         ELSE /\ s.queue = <<>>
              /\ rn' = [s EXCEPT !.llamaContexts = @ \ {c},
                                 !.last = RnEvent("releaseContext", c, "resolved")]

\* llamaDQueue starts its oldest block.
RN_blockStart ==
  /\ rn.queue # <<>>
  /\ ~rn.started
  /\ LET job == Head(rn.queue) IN
     rn' = [rn EXCEPT !.started = TRUE,
                      !.predicting = CactusContextBegin(@, job.op, job.c),
                      !.last = RnEvent(job.op, job.c, "running")]

\* The running block ends: the promise is resolved, or rejected on an
\* exception.
RN_blockEnd ==
  /\ rn.queue # <<>>
  /\ rn.started
  /\ \E ok \in BOOLEAN :
       LET job == Head(rn.queue) IN
       rn' = [rn EXCEPT !.started = FALSE,
                        !.queue = Tail(@),
                        !.predicting = CactusContextEnd(@, job.op, job.c),
                        !.unfinished[job.c] = IF job.op = "completion" THEN @ - 1 ELSE @,
                        !.last = RnEvent(job.op, job.c, IF ok THEN "resolved" ELSE "rejected")]

\* =======================================================================
\* Specifications: one per component; the other components stay as
\* constructed.
\* =======================================================================

\* A VoiceToText that is constructed and never used.
VTT_Idle == VTT_Init /\ vtt_platform = "ios"

\* History of the transcriptions: a processAudio that resolves gives the value
\* it resolved with; a releaseSTT() that completes (its promise resolves, with
\* or without a native call) forgets it.
VttHistory ==
  vtt_lastResolved' =
    IF vtt_last'.op = "processAudio" /\ vtt_last'.res = "resolved"
         /\ Len(vtt_pending') < Len(vtt_pending)
      THEN vtt_last'.val
    ELSE IF vtt_last'.op \in {"releaseSTT", "release"} /\ vtt_last'.res = "resolved"
      THEN NULL
    ELSE vtt_lastResolved

InitVTT == VTT_Init /\ IOS_Idle /\ FL_Idle /\ CTX_Idle /\ STT_Idle /\ DS_Idle /\ KV_Idle /\ RN_Idle

NextVTT ==
  \/ VTT_requestPermissions /\ VttHistory /\ UNCHANGED vttRest
  \/ VTT_start /\ VttHistory /\ UNCHANGED vttRest
  \/ VTT_stop /\ VttHistory /\ UNCHANGED vttRest
  \/ VTT_initSTT /\ VttHistory /\ UNCHANGED vttRest
  \/ VTT_processAudio /\ VttHistory /\ UNCHANGED vttRest
  \/ VTT_releaseSTT /\ VttHistory /\ UNCHANGED vttRest
  \/ VTT_release /\ VttHistory /\ UNCHANGED vttRest
  \/ VTT_onAudioData /\ VttHistory /\ UNCHANGED vttRest
  \/ VTT_settleRequestPermissions /\ VttHistory /\ UNCHANGED vttRest
  \/ VTT_settleStartRecording /\ VttHistory /\ UNCHANGED vttRest
  \/ VTT_settleStopRecording /\ VttHistory /\ UNCHANGED vttRest
  \/ VTT_settleInitSTT /\ VttHistory /\ UNCHANGED vttRest
  \/ VTT_settleProcessAudioFile /\ VttHistory /\ UNCHANGED vttRest
  \/ VTT_settleReleaseSTT /\ VttHistory /\ UNCHANGED vttRest

SpecVTT == InitVTT /\ [][NextVTT]_vars

InitIOS == IOS_Init /\ VTT_Idle /\ FL_Idle /\ CTX_Idle /\ STT_Idle /\ DS_Idle /\ KV_Idle /\ RN_Idle

\* Every step of the iOS service remembers the step before it.
IosHistory == ios_prevOp' = ios_last.op

NextIOS ==
  \/ IOS_initSTT /\ IosHistory /\ UNCHANGED iosRest
  \/ IOS_releaseSTT /\ IosHistory /\ UNCHANGED iosRest
  \/ IOS_startVoiceCapture /\ IosHistory /\ UNCHANGED iosRest
  \/ IOS_permissionCallback /\ IosHistory /\ UNCHANGED iosRest
  \/ IOS_stopVoiceCapture /\ IosHistory /\ UNCHANGED iosRest
  \/ IOS_processAudioFile /\ IosHistory /\ UNCHANGED iosRest
  \/ IOS_recorderDidFinish /\ IosHistory /\ UNCHANGED iosRest
  \/ IOS_encodeError /\ IosHistory /\ UNCHANGED iosRest

SpecIOS == InitIOS /\ [][NextIOS]_vars

InitFlutter == FL_Init /\ VTT_Idle /\ IOS_Idle /\ CTX_Idle /\ STT_Idle /\ DS_Idle /\ KV_Idle /\ RN_Idle

NextFlutter ==
  \/ FL_initialize /\ UNCHANGED flRest
  \/ FL_startProcessing /\ UNCHANGED flRest
  \/ FL_hasPermission /\ UNCHANGED flRest
  \/ FL_requestPermission /\ UNCHANGED flRest
  \/ FL_startRecordingReply /\ UNCHANGED flRest
  \/ FL_stopProcessing /\ UNCHANGED flRest
  \/ FL_stopRecordingReply /\ UNCHANGED flRest
  \/ FL_nativeEvent /\ UNCHANGED flRest
  \/ FL_timerTick /\ UNCHANGED flRest

SpecFlutter == InitFlutter /\ [][NextFlutter]_vars

InitCtx == CTX_Init /\ VTT_Idle /\ IOS_Idle /\ FL_Idle /\ STT_Idle /\ DS_Idle /\ KV_Idle /\ RN_Idle

NextCtx ==
  \/ CTX_loadPrompt /\ UNCHANGED ctxRest
  \/ CTX_beginCompletion /\ UNCHANGED ctxRest
  \/ CTX_nextToken /\ UNCHANGED ctxRest

SpecCtx == InitCtx /\ [][NextCtx]_vars

InitSTT == STT_Init /\ VTT_Idle /\ IOS_Idle /\ FL_Idle /\ CTX_Idle /\ DS_Idle /\ KV_Idle /\ RN_Idle

NextSTT ==
  \/ STT_initialize /\ UNCHANGED sttRest
  \/ STT_processAudio /\ UNCHANGED sttRest
  \/ STT_setUserVocabulary /\ UNCHANGED sttRest

SpecSTT == InitSTT /\ [][NextSTT]_vars

\* The permission completion and the recorder's delegate callback are
\* dispatched by the system and are delivered once due.
InitDartSTT == DS_Init /\ VTT_Idle /\ IOS_Idle /\ FL_Idle /\ CTX_Idle /\ STT_Idle /\ KV_Idle /\ RN_Idle

NextDartSTT ==
  \/ DS_initialize /\ UNCHANGED dsRest
  \/ DS_processAudioChunk /\ UNCHANGED dsRest
  \/ DS_getTranscription /\ UNCHANGED dsRest
  \/ DS_free /\ UNCHANGED dsRest

SpecDartSTT == InitDartSTT /\ [][NextDartSTT]_vars

InitKv == KV_Init /\ VTT_Idle /\ IOS_Idle /\ FL_Idle /\ CTX_Idle /\ STT_Idle /\ DS_Idle /\ RN_Idle

NextKv == KV_call /\ UNCHANGED kvRest

SpecKv == InitKv /\ [][NextKv]_vars

InitRn == RN_Init /\ VTT_Idle /\ IOS_Idle /\ FL_Idle /\ CTX_Idle /\ STT_Idle /\ DS_Idle /\ KV_Idle

NextRn ==
  \/ RN_initContext /\ UNCHANGED rnRest
  \/ RN_completion /\ UNCHANGED rnRest
  \/ RN_loadSession /\ UNCHANGED rnRest
  \/ RN_saveSession /\ UNCHANGED rnRest
  \/ RN_applyLoraAdapters /\ UNCHANGED rnRest
  \/ RN_removeLoraAdapters /\ UNCHANGED rnRest
  \/ RN_releaseContext /\ UNCHANGED rnRest
  \/ RN_blockStart /\ UNCHANGED rnRest
  \/ RN_blockEnd /\ UNCHANGED rnRest

SpecRn == InitRn /\ [][NextRn]_vars

\* The caller's loop `while (ctx.has_next_token) ctx.nextToken()` keeps calling.
SpecCtxFair == SpecCtx /\ WF_vars(CTX_nextToken /\ UNCHANGED ctxRest)

SpecIOSFair ==
  /\ SpecIOS
  /\ WF_vars(IOS_permissionCallback /\ IosHistory /\ UNCHANGED iosRest)
  /\ WF_vars(IOS_recorderDidFinish /\ IosHistory /\ UNCHANGED iosRest)


\* ---- claims about VoiceToText ------------------------------------------

\* The step taken is a call of VoiceToText method `op`.
VttCallStep(op) == vtt_calls' = vtt_calls + 1 /\ vtt_last'.op = op

\* The step rejected with 'STT model not initialized...', invoked no native
\* method and left isRecording and currentTranscription as they were.
VttRejectedNotInitialized ==
  /\ vtt_last'.res = "rejected"
  /\ vtt_last'.val = NotInitializedMsg
  /\ vtt_nativeCalls' = vtt_nativeCalls
  /\ vtt_pending' = vtt_pending
  /\ vtt_isRecording' = vtt_isRecording
  /\ vtt_currentTranscription' = vtt_currentTranscription

C5_AsStated == vtt_modelPath # NULL => vtt_modelPath \in vtt_initOK

\* C6: isRecording changes only when a native call resolves: to true when the
\* native startRecording of start() resolves, to false when the native
\* stopRecording of stop() resolves; when either rejects isRecording is kept.
C6_Theorem ==
  [][ /\ (vtt_isRecording' # vtt_isRecording =>
            \/ vtt_isRecording' /\ vtt_last' = VttEvent("start", "resolved", "Recording started")
            \/ ~vtt_isRecording' /\ vtt_last' = VttEvent("stop", "resolved", "a1"))
      /\ (vtt_last' = VttEvent("start", "resolved", "Recording started") => vtt_isRecording')
      /\ (vtt_last' = VttEvent("stop", "resolved", "a1") => ~vtt_isRecording')
      /\ (vtt_last'.op \in {"start", "stop"} /\ vtt_last'.res = "rejected"
            => vtt_isRecording' = vtt_isRecording) ]_vars

\* C6 witness: the native stopRecording of a stop() rejected while recording,
\* and isRecording is still true.
C6_Witness ==
  /\ vtt_last.op = "stop"
  /\ vtt_last.res = "rejected"
  /\ vtt_last.val \in {"file_error", "not_recording"}
  /\ vtt_isRecording

\* C7, as stated: requestPermissions() always resolves with a boolean; a
\* denial is never a rejected promise.
C7_AsStated ==
  (vtt_last.op = "requestPermissions" /\ vtt_last.res # "pending")
    => (vtt_last.res = "resolved" /\ vtt_last.val \in {"true", "false"})

\* -----------------------------------------------------------------------
\* Claims about cactus-ios CactusSTTService
\* -----------------------------------------------------------------------

IosCallStep(op) == ios_calls' = ios_calls + 1 /\ ios_last'.op = op

IosNotInitializedCall ==
  /\ ~IosIsInitialized(ios_sttContext)
  /\ (IosCallStep("startVoiceCapture") \/ IosCallStep("processAudioFile"))

\* The callback ran once, with no result and notInitialized; nothing was asked
\* of the permission system, the recorder or the native library.
IosOnlyReportedNotInitialized ==
  /\ ios_last'.cb = 1
  /\ ios_last'.text = NULL
  /\ ios_last'.err = "notInitialized"
  /\ (ios_last'.handler # 0 =>
        ios_handlerCalls'[ios_last'.handler] = ios_handlerCalls[ios_last'.handler] + 1)
  /\ ios_permRequests' = ios_permRequests
  /\ ios_permPending' = ios_permPending
  /\ ios_recordings' = ios_recordings
  /\ ios_audioRecorder' = ios_audioRecorder
  /\ ios_nativeCalls' = ios_nativeCalls

\* C8: after an accepted startVoiceCapture, a stopVoiceCapture is eventually
\* followed by exactly one invocation of that capture's handler and by
\* isCapturingVoice being false, given that the permission completion and the
\* recorder's delegate callback are delivered.
C8_AsStated ==
  \A h \in 1..MaxIosCaptures :
    (ios_stopRequested = h) ~> (ios_handlerCalls[h] = 1 /\ ~ios_isCapturingVoice)

\* C9 as stated: startVoiceCapture and processAudioFile on a service that is
\* not initialized call their callback once with nil and notInitialized, ask
\* for no permission, start no recording, call no native function, and
\* isCapturingVoice is false afterwards.
C9_AsStated ==
  [][IosNotInitializedCall =>
       IosOnlyReportedNotInitialized /\ ios_isCapturingVoice' = FALSE]_vars

\* C9 amended: the same, except that isCapturingVoice is left as it was.
C9_Amended ==
  [][IosNotInitializedCall =>
       IosOnlyReportedNotInitialized /\ ios_isCapturingVoice' = ios_isCapturingVoice]_vars

\* A startVoiceCapture found the service not initialized while an earlier
\* capture was still in progress.
C9_Witness ==
  /\ ios_last.op = "startVoiceCapture"
  /\ ios_last.err = "notInitialized"
  /\ ios_isCapturingVoice

\* -----------------------------------------------------------------------
\* Claims about cactus-flutter VoiceProcessorService
\* -----------------------------------------------------------------------

\* C1: when startProcessing completes after permission was granted and
\* startRecording returned true, isListening is true and the last state
\* emitted is listening; and every chunk the AudioInputService emits from
\* then until stopProcessing is called is passed to processAudioChunk.
C1_AsStated ==
  /\ (fl.last = FlEvent("startProcessing", "started") =>
        fl.isListening /\ fl.state = "listening")
  /\ ~fl.missed

\* -----------------------------------------------------------------------
\* Claims about cactus::cactus_context
\* -----------------------------------------------------------------------

\* C2: after loadPrompt, a prompt whose tokenization has more tokens than
\* the context leaves room for (n_ctx or more) has set the truncated flag.
C2_Theorem ==
  (ctx.phase # "loaded" /\ ctx.prompt >= ctx.n_ctx) => ctx.truncated

\* loadPrompt returned for a prompt longer than the context; it was cut.
C2_Witness ==
  /\ ctx.last = CtxEvent("loadPrompt", NULL)
  /\ ctx.prompt > ctx.n_ctx
  /\ ctx.truncated
  /\ ctx.num_prompt_tokens < ctx.n_ctx

\* C3: whenever nextToken returns the end-of-sequence token, stopped_eos is
\* true when the call returns.
C3_Theorem ==
  ctx.last = CtxEvent("nextToken", "eos") => ctx.stopped_eos

\* nextToken returned the end-of-sequence token as the last token the limit
\* allowed, after an ordinary token.
C3_Witness ==
  /\ ctx.last = CtxEvent("nextToken", "eos")
  /\ ctx.num_tokens_predicted = 2
  /\ ctx.n_predict = 2
  /\ ctx.stopped_eos

\* -----------------------------------------------------------------------
\* Claims about cactus::STT
\* -----------------------------------------------------------------------

C11_AsStated ==
  [][stt'.whisper_full_calls = stt.whisper_full_calls + 1 =>
       stt'.initial_prompt = IF stt.user_vocabulary_ = "" THEN NULL
                                                         ELSE stt.user_vocabulary_]_vars

\* The contexts cactus_stt_init returned that were not passed to
\* cactus_stt_free.
IosLiveContexts == {c \in 1..ios_contexts : ios_freeCount[c] = 0}

\* C12: the iOS service holds at most one live context (the one in
\* sttContext, if any); initSTT frees the held context before it creates a
\* new one; no context is passed to cactus_stt_free twice; and after initSTT
\* isInitialized is true exactly when the completion got a nil error.
C12_Theorem ==
  /\ [](/\ Cardinality(IosLiveContexts) <= 1
        /\ IosLiveContexts = IF ios_sttContext = 0 THEN {} ELSE {ios_sttContext}
        /\ \A c \in 1..ios_contexts : ios_freeCount[c] <= 1
        /\ (ios_last.op = "initSTT" =>
              (IosIsInitialized(ios_sttContext) <=> ios_last.err = NULL)))
  /\ [][(IosCallStep("initSTT") /\ ios_sttContext # 0) =>
          /\ ios_freeCount'[ios_sttContext] = ios_freeCount[ios_sttContext] + 1
          /\ ios_sttContext' # ios_sttContext]_vars

\* A second initSTT succeeded: the first context was freed once, the second
\* is held.
C12_Witness ==
  /\ ios_last.op = "initSTT"
  /\ ios_contexts = 2
  /\ ios_freeCount[1] = 1
  /\ ios_sttContext = 2

\* The fields of the service and of its audio manager.
IosServiceState ==
  <<ios_sttContext, ios_modelPath, ios_isCapturingVoice, ios_transcriptionHandler,
    ios_audioRecorder, ios_currentRecordingURL, ios_permPending, ios_freeCount,
    ios_handlerCalls, ios_nativeCalls>>

\* C13: releaseSTT, in every state, calls its completion once with a nil
\* error and leaves isInitialized false; a releaseSTT that follows a
\* releaseSTT changes nothing.
C13_Theorem ==
  [][IosCallStep("releaseSTT") =>
       /\ ios_last'.cb = 1
       /\ ios_last'.err = NULL
       /\ ~IosIsInitialized(ios_sttContext')
       /\ (ios_last.op = "releaseSTT" => UNCHANGED IosServiceState)]_vars

\* releaseSTT was called twice in a row on a service that had been
\* initialized.
C13_Witness ==
  /\ ios_prevOp = "releaseSTT"
  /\ ios_last.op = "releaseSTT"
  /\ ios_contexts >= 1
  /\ ~IosIsInitialized(ios_sttContext)

\* A startVoiceCapture step that leaves the capture in progress as it was.
IosCaptureUntouched ==
  /\ ios_last'.cb = 1
  /\ ios_last'.text = NULL
  /\ ios_handlerCalls'[ios_last'.handler] = ios_handlerCalls[ios_last'.handler] + 1
  /\ UNCHANGED <<ios_transcriptionHandler, ios_isCapturingVoice, ios_audioRecorder,
                 ios_currentRecordingURL, ios_permPending, ios_recordings>>

\* C14 as stated: startVoiceCapture during a capture calls the new handler
\* with alreadyCapturing and leaves the stored handler, the recording and
\* isCapturingVoice as they were.
C14_AsStated ==
  [][(IosCallStep("startVoiceCapture") /\ ios_isCapturingVoice) =>
       IosCaptureUntouched /\ ios_last'.err = "alreadyCapturing"]_vars

\* C14 amended: the error is alreadyCapturing when the service is
\* initialized and notInitialized when it is not; the capture in progress is
\* left as it was either way.
C14_Amended ==
  [][(IosCallStep("startVoiceCapture") /\ ios_isCapturingVoice) =>
       /\ IosCaptureUntouched
       /\ ios_last'.err = IF IosIsInitialized(ios_sttContext) THEN "alreadyCapturing"
                                                              ELSE "notInitialized"]_vars

\* A startVoiceCapture was refused with alreadyCapturing while the recorder
\* of the capture in progress was recording.
C14_Witness ==
  /\ ios_last.op = "startVoiceCapture"
  /\ ios_last.err = "alreadyCapturing"
  /\ ios_isCapturingVoice
  /\ ios_audioRecorder = "recording"
  /\ ios_transcriptionHandler # ios_last.handler

\* -----------------------------------------------------------------------
\* C15: getTranscription() returns what the most recent processAudio that
\* resolved resolved with, and null when no processAudio resolved since the
\* construction or since the last releaseSTT that completed.
\* -----------------------------------------------------------------------
C15_AsStated == VttGetTranscription = vtt_lastResolved

\* The fields of the VoiceToText instance.
VttFields == <<vtt_modelPath, vtt_isRecording, vtt_currentTranscription, vtt_subscribed>>

\* The step invokes the native method `op` with `arg`, and no other.
VttInvokedStep(op, arg) ==
  /\ vtt_nativeCalls' = vtt_nativeCalls + 1
  /\ vtt_pending' = Append(vtt_pending, [op |-> op, arg |-> arg])

\* The step is the native promise of `op` settling and the method continuing.
VttSettleStep(op) == Len(vtt_pending') < Len(vtt_pending) /\ vtt_last'.op = op

C17_AsStated ==
  [][VttCallStep("release") =>
       ~vtt_subscribed' /\ VttInvokedStep("releaseSTT", NULL)]_vars

\* -----------------------------------------------------------------------
\* C18: an onAudioData event starts processAudio(event.filePath) exactly when
\* the listener is still subscribed, modelPath is set and the event has a
\* filePath; otherwise, and for every event delivered after release(),
\* nothing is started.
\* -----------------------------------------------------------------------
C18_Theorem ==
  [][(vtt_events # <<>> /\ vtt_events' = Tail(vtt_events)) =>
       IF vtt_subscribed /\ vtt_modelPath # NULL /\ Head(vtt_events) # NULL
         THEN VttInvokedStep("processAudioFile", Head(vtt_events))
         ELSE UNCHANGED <<vtt_pending, vtt_nativeCalls, VttFields>>]_vars

\* An event delivered after release(), while modelPath is still set.
C18_Witness ==
  /\ vtt_last = VttEvent("onAudioData", "ignored", NULL)
  /\ ~vtt_subscribed
  /\ vtt_modelPath # NULL

FlStartRefused ==
  \/ /\ fl'.calls = fl.calls + 1
     /\ fl'.last.op = "startProcessing"
     /\ ~fl.isSTTInitialized
  \/ /\ fl.pc = "requestPermission"
     /\ fl'.last = FlEvent("startProcessing", "permissionDenied")

C20_Theorem ==
  /\ [][FlStartRefused =>
          /\ fl'.errors = 1
          /\ fl'.state = "error"
          /\ ~fl.isListening /\ ~fl'.isListening
          /\ fl'.startRecordingCalls = fl.startRecordingCalls
          /\ fl'.transcriptionTimer = fl.transcriptionTimer
          /\ fl'.pc = "idle"]_vars
  /\ [][fl.pc \in {"hasPermission", "requestPermission"} =>
          \/ fl'.startRecordingCalls = fl.startRecordingCalls
          \/ /\ fl'.startRecordingCalls = fl.startRecordingCalls + 1
             /\ fl'.last.op = "startProcessing"
             /\ fl'.last.res \in {"pending", "started"}]_vars

\* The permission is refused to a service that recorded before.
C20_Witness ==
  /\ fl.last = FlEvent("startProcessing", "permissionDenied")
  /\ fl.errors = 1
  /\ fl.state = "error"
  /\ fl.isSTTInitialized
  /\ fl.startRecordingCalls = 1
  /\ ~fl.isListening

\* -----------------------------------------------------------------------
\* C21: stopProcessing called while listening emits the state processing and
\* then sttInitialized; when it completes isListening is false, the timer and
\* the audio subscription are cancelled and null, AudioInputService.stopRecording
\* was called once, and one final getTranscription was requested after
\* stopRecording returned.
\* -----------------------------------------------------------------------
FlStopCompleted ==
  /\ fl'.last = FlEvent("stopProcessing", "stopped")
  /\ fl'.pc = "idle"
  /\ fl'.state = "sttInitialized"
  /\ ~fl'.isListening
  /\ fl'.transcriptionTimer = "null"
  /\ fl'.audioDataSubscription = 0 /\ ~fl'.subscriptionLive
  /\ ~fl'.isRecordingDart
  /\ fl'.finalTranscriptions = fl.finalTranscriptions + 1

C21_Theorem ==
  /\ [][(fl'.calls = fl.calls + 1 /\ fl'.last.op = "stopProcessing" /\ fl.isListening) =>
          /\ fl'.stopRecordingCalls = fl.stopRecordingCalls + 1
          /\ IF fl'.pc = "stopRecording"
               THEN /\ fl'.state = "processing"
                    /\ ~fl'.isListening
                    /\ fl'.transcriptionTimer = "null"
                    /\ fl'.finalTranscriptions = fl.finalTranscriptions
               ELSE FlStopCompleted]_vars
  /\ [][fl.pc = "stopRecording" =>
          /\ fl'.stopRecordingCalls = fl.stopRecordingCalls
          /\ IF fl'.pc = "stopRecording"
               THEN /\ ~fl'.isListening
                    /\ fl'.transcriptionTimer = "null"
                    /\ fl'.finalTranscriptions = fl.finalTranscriptions
               ELSE FlStopCompleted]_vars

\* A stopProcessing that waited for the native stopRecording has completed.
C21_Witness ==
  /\ fl.last = FlEvent("stopProcessing", "stopped")
  /\ fl.stopRecordingCalls = 1
  /\ fl.finalTranscriptions = 1
  /\ fl.state = "sttInitialized"
  /\ ~fl.nativeRecording /\ fl.controllers >= 1

\* -----------------------------------------------------------------------
\* C22: when the native startRecording or stopRecording call throws a
\* PlatformException, the method of AudioInputService returns false, and
\* afterwards the service holds no event-channel subscription and no stream
\* controller, and isRecording() is false.
\* -----------------------------------------------------------------------
C22_Theorem ==
  [][((fl.pc \in {"startRecording", "stopRecording"}) /\ fl'.threw) =>
       /\ fl'.aisResult = "false"
       /\ ~fl'.eventChannelSubscription
       /\ fl'.audioDataController = 0
       /\ ~fl'.isRecordingDart]_vars

\* The native stopRecording threw while the recorder ran.
C22_Witness ==
  /\ fl.threw
  /\ fl.last = FlEvent("stopProcessing", "stopped")
  /\ fl.aisResult = "false"
  /\ fl.nativeRecording
  /\ fl.audioDataController = 0

\* -----------------------------------------------------------------------
\* C23: free() passes a context to cactus_stt_free at most once and always
\* leaves isInitialized false, also when the native call throws; while
\* isInitialized is false, processAudioChunk returns false and
\* getTranscription returns null without calling a native function; no freed
\* context is passed to a native function.
\* -----------------------------------------------------------------------
DsCallStep(op) == ds'.calls = ds.calls + 1 /\ ds'.last.op = op

C23_Theorem ==
  /\ [](/\ \A c \in 1..MaxDsCalls : ds.freeCount[c] <= 1
        /\ ~ds.usedFreed
        /\ (DsIsInitialized(ds) => ds.freeCount[ds.sttContext] = 0))
  /\ [][DsCallStep("free") => ~DsIsInitialized(ds')]_vars
  /\ [][(DsCallStep("processAudioChunk") /\ ~DsIsInitialized(ds)) =>
          ds'.last.res = "false" /\ ds'.nativeCalls = ds.nativeCalls]_vars
  /\ [][(DsCallStep("getTranscription") /\ ~DsIsInitialized(ds)) =>
          ds'.last.res = "null" /\ ds'.nativeCalls = ds.nativeCalls]_vars

\* The one context was freed, and a method called afterwards left the native
\* library alone (cactus_stt_init and cactus_stt_free are the two calls made).
C23_Witness ==
  /\ ds.last \in {DsEvent("processAudioChunk", "false"), DsEvent("getTranscription", "null")}
  /\ ds.contexts = 1
  /\ ds.freeCount[1] = 1
  /\ ds.sttContext = 0
  /\ ds.nativeCalls = 2

\* -----------------------------------------------------------------------
\* C24: kv_cache_type_from_str maps "f16" to LM_GGML_TYPE_F16 and "f32" to
\* LM_GGML_TYPE_F32, and throws std::runtime_error, returning no type, for
\* every string that names no supported KV cache type.
\* -----------------------------------------------------------------------
C24_Theorem ==
  kv.calls > 0 =>
    /\ (kv.s = "f16" => kv.result = KvResult("LM_GGML_TYPE_F16", NULL))
    /\ (kv.s = "f32" => kv.result = KvResult("LM_GGML_TYPE_F32", NULL))
    /\ (kv.s \notin {"f32", "f16", "bf16", "q8_0", "q4_0", "q4_1", "iq4_nl", "q5_0", "q5_1"} =>
          kv.result = KvResult(NULL, "std::runtime_error"))

\* The call the test makes with a name of no type.
C24_Witness ==
  /\ kv.calls > 0
  /\ kv.s = "invalid_type"
  /\ kv.result.thrown = "std::runtime_error"

\* -----------------------------------------------------------------------
\* C25: a completion, loadSession, saveSession, applyLoraAdapters or
\* removeLoraAdapters request for a context is rejected with 'Context is
\* busy', and hands nothing to the queue, whenever a completion accepted
\* earlier for that context has not finished, be it running or waiting.
\* -----------------------------------------------------------------------
C25_AsStated ==
  [][(/\ rn'.calls = rn.calls + 1
      /\ rn'.last.op \in RnQueuedOps \cup RnDirectOps
      /\ rn.unfinished[rn'.last.c] > 0) =>
       /\ rn'.last.res = "Context is busy"
       /\ rn'.queue = rn.queue]_vars

\* -----------------------------------------------------------------------
\* C26: after loadPrompt and beginCompletion with n_predict = N >= 0,
\* has_next_token is false after at most N calls of nextToken, or earlier
\* when a stop condition such as the end-of-sequence token is met, so the
\* loop `while (has_next_token) nextToken()` ends.
\* -----------------------------------------------------------------------
CtxCompleting == ctx.phase = "completing" /\ ctx.n_predict >= 0

=============================================================================
